---- MODULE Spec2Model ----
(***************************************************************************)
(* Order placement and order lifecycle of the click-and-collect backend.   *)
(*                                                                         *)
(* The committed contents of the database tables are the variables         *)
(* dishesTable .. paymentsTable.  Every request is run by a process of     *)
(* Procs; a request advances one database statement at a time, so that     *)
(* the statements of requests running at the same time interleave.         *)
(* createOrder runs inside db.transaction: its writes are held in the      *)
(* process's write sets (wDishes, wPromos, wSlots, wCustomer), they lock   *)
(* the rows they touch, and they reach the tables only on commit.  The     *)
(* isolation level is PostgreSQL's default, READ COMMITTED: a SELECT sees  *)
(* the committed rows plus the transaction's own writes, an UPDATE waits   *)
(* for the row lock.  updateOrderStatus runs without a transaction: each   *)
(* of its statements is applied to the tables at once.                     *)
(*                                                                         *)
(* Spec      : lifecycle requests run one after the other.                 *)
(* SpecFail  : the same, and a statement of updateOrderStatus can be cut   *)
(*             short by a database error.                                  *)
(* SpecStock : placements and cancellations one after the other.           *)
(* SpecPlace : placements of different processes interleave.               *)
(* SpecPay   : lifecycle requests on orders with several payments.         *)
(* SpecPrice : placements over every kind of price and promo code.         *)
(* SpecDish  : placements, cancellations and stock updates in sequence.    *)
(* SpecBook  : placements and cancellations of all processes interleave.   *)
(* SpecSlot  : createTimeSlot calls of all processes interleave.           *)
(* SpecPromo : createPromoCode calls of all processes interleave.          *)
(* SpecCaller: placements for every kind of caller.                        *)
(* SpecCode  : placements naming every kind of promo code.                 *)
(* SpecTamper: placements whose items carry made-up prices.                *)
(* SpecNotes : lifecycle requests with internal notes.                     *)
(* SpecLive  : one placement per process, under fair scheduling.           *)
(* SpecVariant: createDishVariant calls one after the other.               *)
(* SpecStatus: stock updates with and without an explicit status.         *)
(* SpecShelf : stock updates without an explicit status.                  *)
(* SpecCancel: cancellations of all processes interleave.                 *)
(* SpecAgree : placements next to validatePromoCode calls.                *)
(***************************************************************************)
EXTENDS Integers, Sequences, FiniteSets, TLC

\* ------------------------------------------------------------------ bounds
NProcs == 2
MaxOrders == 2
MaxPayments == 1
MaxSlots == 4
MaxPromos == 6
MaxVariants == 4

Procs == 1..NProcs

\* --------------------------------------------------------- nullable columns
Null == << >>
Some(v) == << v >>
Val(o) == o[1]

Max(a, b) == IF a >= b THEN a ELSE b
Min(a, b) == IF a <= b THEN a ELSE b

\* ------------------------------------------------------------------- money
\* Prices are whole cents.  Amounts computed in the handler (discount, tax,
\* total) are kept in units of 1/Unit cent, which makes the percentage and
\* the tax rate exact; a numeric(10,2) column rounds them to whole cents.
Unit == 10000
TAX_RATE == 8

RoundCents(x) == IF x >= 0 THEN (x + Unit \div 2) \div Unit
                 ELSE 0 - (((0 - x) + Unit \div 2) \div Unit)

\* -------------------------------------------------------------------- time
\* A timestamp counts minutes; DayLen minutes make a day.  toISOString()
\* .split('T')[0] keeps the day, toTimeString() ... substring(0, 5) keeps
\* the minute of the day.
DayLen == 5
DateOf(ts) == ts \div DayLen
TimeOf(ts) == ts % DayLen

VARIABLES dishesTable, dishVariantsTable, timeSlotsTable, promoCodesTable,
          customersTable, ordersTable, orderItemsTable, orderPromoCodesTable,
          paymentsTable, usersTable, bookedSlot, proc

tables == << dishesTable, dishVariantsTable, timeSlotsTable, promoCodesTable,
             customersTable, ordersTable, orderItemsTable,
             orderPromoCodesTable, paymentsTable, usersTable >>

vars == << dishesTable, dishVariantsTable, timeSlotsTable, promoCodesTable,
           customersTable, ordersTable, orderItemsTable, orderPromoCodesTable,
           paymentsTable, usersTable, bookedSlot, proc >>

\* ------------------------------------------------------------ process state
\* slotsBefore is a history field: the time slots as they were when the
\* request began.  bookedSlot is a history variable: the slot createOrder
\* booked each order into.
NoRow == [none |-> TRUE]

NoInput == [none |-> TRUE]

Blank == [pc |-> "idle", op |-> "none", input |-> NoInput, res |-> "none",
          customerId |-> Null, i |-> 1, dish |-> NoRow, subtotal |-> 0,
          validatedItems |-> << >>, discountAmount |-> 0,
          promoCodeId |-> Null, promoCode |-> NoRow, timeSlot |-> NoRow,
          wDishes |-> << >>, wPromos |-> << >>, wSlots |-> << >>,
          wCustomer |-> Null, existingOrder |-> NoRow, currentBookings |-> 0,
          slotsBefore |-> << >>, paymentsBefore |-> << >>,
          dishesBefore |-> << >>, now |-> Null]

TxPcs == {"co_dish_select", "co_dish_update", "co_promo_select",
          "co_promo_update", "co_slot_select", "co_slot_update", "co_insert"}

InTx(p) == proc[p].pc \in TxPcs

\* Row locks: a transaction holds the lock of every row it has updated until
\* it commits or rolls back.
DishLockedByOther(p, d) ==
    \E q \in Procs \ {p} : InTx(q) /\ d \in DOMAIN proc[q].wDishes
PromoLockedByOther(p, c) ==
    \E q \in Procs \ {p} : InTx(q) /\ c \in DOMAIN proc[q].wPromos
SlotLockedByOther(p, s) ==
    \E q \in Procs \ {p} : InTx(q) /\ s \in DOMAIN proc[q].wSlots

\* What a SELECT of process p sees: its own uncommitted row, else the
\* committed one.
DishView(p, d) == IF d \in DOMAIN proc[p].wDishes THEN proc[p].wDishes[d]
                  ELSE dishesTable[d]
PromoView(p, c) == IF c \in DOMAIN proc[p].wPromos THEN proc[p].wPromos[c]
                   ELSE promoCodesTable[c]
SlotView(p, s) == IF s \in DOMAIN proc[p].wSlots THEN proc[p].wSlots[s]
                  ELSE timeSlotsTable[s]

\* f with key k set to v (k need not be in the domain of f).
Put(f, k, v) == [x \in (DOMAIN f) \cup {k} |-> IF x = k THEN v ELSE f[x]]
\* f overridden by g on the domain of g.
Overlay(f, g) == [x \in DOMAIN f |-> IF x \in DOMAIN g THEN g[x] ELSE f[x]]

\* ------------------------------------------------------------------- Init
\* The catalog, the slots and the promo code are created by handlers outside
\* this model; Init is a database as those handlers leave it.
InitDishes ==
    << [price |-> 1000, status |-> "available", stock_quantity |-> Some(2)],
       [price |-> 500, status |-> "available", stock_quantity |-> Some(1)],
       [price |-> 300, status |-> "available", stock_quantity |-> Null],
       [price |-> 700, status |-> "unavailable", stock_quantity |-> Null] >>

InitVariants ==
    << [dish_id |-> 1, price_modifier |-> 200, is_default |-> TRUE],
       [dish_id |-> 2, price_modifier |-> 0 - 800, is_default |-> FALSE] >>

\* Two adjacent slots on day 0: [0, 2) and [2, 4).
InitTimeSlots ==
    << [date |-> 0, start_time |-> 0, end_time |-> 2, max_capacity |-> 1,
        current_bookings |-> 0, is_available |-> TRUE],
       [date |-> 0, start_time |-> 2, end_time |-> 4, max_capacity |-> 2,
        current_bookings |-> 0, is_available |-> TRUE] >>

InitPromoCodes ==
    << [code |-> "P1", discount_percentage |-> Some(50),
        discount_amount |-> Null, minimum_order_amount |-> Some(500),
        max_uses |-> Some(1), used_count |-> 0, valid_from |-> 1,
        valid_until |-> 3, is_active |-> TRUE],
       [code |-> "P2", discount_percentage |-> Some(150),
        discount_amount |-> Null, minimum_order_amount |-> Null,
        max_uses |-> Null, used_count |-> 0, valid_from |-> 1,
        valid_until |-> 3, is_active |-> TRUE],
       [code |-> "P3", discount_percentage |-> Null,
        discount_amount |-> Some(1300), minimum_order_amount |-> Null,
        max_uses |-> Null, used_count |-> 0, valid_from |-> 1,
        valid_until |-> 3, is_active |-> TRUE],
       [code |-> "P4", discount_percentage |-> Some(10),
        discount_amount |-> Null, minimum_order_amount |-> Null,
        max_uses |-> Null, used_count |-> 0, valid_from |-> 1,
        valid_until |-> 3, is_active |-> FALSE] >>

Init ==
    /\ dishesTable = InitDishes
    /\ dishVariantsTable = InitVariants
    /\ timeSlotsTable = InitTimeSlots
    /\ promoCodesTable = InitPromoCodes
    /\ usersTable = {1}
    /\ customersTable = {}
    /\ ordersTable = << >>
    /\ orderItemsTable = {}
    /\ orderPromoCodesTable = {}
    /\ paymentsTable = << >>
    /\ bookedSlot = << >>
    /\ proc = [p \in Procs |-> Blank]

\* ------------------------------------------------------------- createOrder
\* An item of the input; unit_price is the price the caller sends, in cents.
PricedItem(d, v, q, unit_price) ==
    [dish_id |-> d, variant_id |-> v, quantity |-> q,
     unit_price |-> unit_price]

Item(d, v, q) == PricedItem(d, v, q, 1)

OrderInput(ci, u, ts, items, promo) ==
    [customer_info |-> ci, user_id |-> u, pickup_slot |-> ts,
     items |-> items, promo_code |-> promo]

\* A request ends: the caller gets the order (res = "ok") or the error.
Finish(p, r) == [proc[p] EXCEPT !.pc = "done", !.res = r]

\* Abort without the rollback: the writes made so far are committed.
AbortKeepingWrites(p, err) ==
    /\ proc' = [proc EXCEPT ![p] = Finish(p, err)]
    /\ dishesTable' = [d \in DOMAIN dishesTable |->
                          IF d \in DOMAIN proc[p].wDishes
                          THEN proc[p].wDishes[d] ELSE dishesTable[d]]
    /\ customersTable' = IF proc[p].wCustomer # Null
                         THEN customersTable \cup {proc[p].wCustomer[1]}
                         ELSE customersTable
    /\ UNCHANGED << dishVariantsTable, timeSlotsTable, promoCodesTable,
                    ordersTable, orderItemsTable, orderPromoCodesTable,
                    paymentsTable, usersTable, bookedSlot >>

\* A throw inside db.transaction: the transaction is rolled back, none of
\* its writes reaches the tables, and createOrder rethrows the error.
Abort(p, err) ==
    /\ proc' = [proc EXCEPT ![p] = Finish(p, err)]
    /\ UNCHANGED << tables, bookedSlot >>

\* Where the handler goes after item i.
AfterItem(st) ==
    IF st.i < Len(st.input.items) THEN "co_dish_select"
    ELSE IF st.input.promo_code # Null THEN "co_promo_select"
    ELSE "co_slot_select"

\* The id the customers sequence hands out: one no row has, committed or
\* not (the least such, ids being interchangeable).
CustomerIdsInUse ==
    customersTable \cup
    {Val(proc[q].wCustomer) : q \in {r \in Procs : InTx(r)}}

NextCustomerId ==
    CHOOSE n \in 1..(Cardinality(CustomerIdsInUse) + 1) :
        /\ n \notin CustomerIdsInUse
        /\ \A m \in 1..(n - 1) : m \in CustomerIdsInUse

\* db.transaction starts; a guest order inserts its customer row first.
CoBegin(p, input) ==
    /\ proc[p].pc = "idle"
    /\ Len(ordersTable) < MaxOrders
    /\ LET guest == input.customer_info /\ input.user_id = Null
           st0 == [Blank EXCEPT !.op = "createOrder", !.input = input,
                                !.i = 0,
                                !.slotsBefore = timeSlotsTable,
                                !.dishesBefore = dishesTable]
           st1 == IF guest
                  THEN [st0 EXCEPT !.customerId = Some(NextCustomerId),
                                   !.wCustomer = Some(NextCustomerId)]
                  ELSE st0
       IN proc' = [proc EXCEPT ![p] = [st1 EXCEPT !.pc = AfterItem(st1),
                                                  !.i = 1]]
    /\ UNCHANGED << tables, bookedSlot >>

\* The SELECTs of one item: the dish, then its variant; the checks on them.
DishError(p, item) ==
    IF item.dish_id \notin DOMAIN dishesTable THEN "DishNotFound"
    ELSE LET dish == DishView(p, item.dish_id)
         IN IF dish.status # "available" THEN "DishUnavailable"
            ELSE IF dish.stock_quantity # Null
                    /\ Val(dish.stock_quantity) < item.quantity
                 THEN "InsufficientStock"
            ELSE IF item.variant_id # Null
                    /\ ~ (/\ Val(item.variant_id) \in DOMAIN dishVariantsTable
                          /\ dishVariantsTable[Val(item.variant_id)].dish_id
                                = item.dish_id)
                 THEN "VariantNotFound"
            ELSE "ok"

\* The validated item with the prices the caller sent.
ValidatedItemAsSent(item, finalUnitPrice, itemTotal) ==
    [dish_id |-> item.dish_id, variant_id |-> item.variant_id,
     quantity |-> item.quantity, unit_price |-> item.unit_price,
     total_price |-> item.unit_price * item.quantity]

\* {...item, unit_price: finalUnitPrice, total_price: itemTotal}: the
\* computed prices replace the unit_price of the input.
ValidatedItem(item, finalUnitPrice, itemTotal) ==
    [dish_id |-> item.dish_id, variant_id |-> item.variant_id,
     quantity |-> item.quantity, unit_price |-> finalUnitPrice,
     total_price |-> itemTotal]

CoDishSelect(p) ==
    /\ proc[p].pc = "co_dish_select"
    /\ LET st == proc[p]
           item == st.input.items[st.i]
           err == DishError(p, item)
       IN IF err # "ok"
          THEN Abort(p, err)
          ELSE LET dish == DishView(p, item.dish_id)
                   variantPriceModifier ==
                       IF item.variant_id # Null
                       THEN dishVariantsTable[Val(item.variant_id)].price_modifier
                       ELSE 0
                   finalUnitPrice == dish.price + variantPriceModifier
                   itemTotal == finalUnitPrice * item.quantity
                   st1 == [st EXCEPT
                             !.dish = dish,
                             !.subtotal = st.subtotal + itemTotal,
                             !.validatedItems = Append(st.validatedItems,
                                 ValidatedItem(item, finalUnitPrice,
                                               itemTotal))]
               IN /\ proc' = [proc EXCEPT ![p] =
                         IF dish.stock_quantity # Null
                         THEN [st1 EXCEPT !.pc = "co_dish_update"]
                         ELSE [st1 EXCEPT !.pc = AfterItem(st1),
                                          !.i = st.i + 1]]
                  /\ UNCHANGED << tables, bookedSlot >>

\* The status set only when the stock falls below zero.
StockStatusBelowZero(dish, quantity) ==
    IF Val(dish.stock_quantity) - quantity < 0 THEN "out_of_stock"
    ELSE dish.status

\* The status the UPDATE of a stock-tracked dish sets.
StockStatus(dish, quantity) ==
    IF Val(dish.stock_quantity) - quantity <= 0 THEN "out_of_stock"
    ELSE dish.status

\* UPDATE dishes SET stock_quantity, status WHERE id: the values come from
\* the row read by the SELECT before; the statement waits for the row lock.
CoDishUpdate(p) ==
    /\ proc[p].pc = "co_dish_update"
    /\ LET st == proc[p]
           item == st.input.items[st.i]
           d == item.dish_id
           row == [DishView(p, d) EXCEPT
                     !.stock_quantity =
                         Some(Val(st.dish.stock_quantity) - item.quantity),
                     !.status = StockStatus(st.dish, item.quantity)]
       IN /\ ~ DishLockedByOther(p, d)
          /\ proc' = [proc EXCEPT ![p] =
                 [st EXCEPT !.wDishes = Put(st.wDishes, d, row),
                            !.pc = AfterItem(st), !.i = st.i + 1]]
    /\ UNCHANGED << tables, bookedSlot >>

\* The promo code row with the given code (codes are unique), as process p
\* sees it; the empty set when there is none.
PromoIdsByCode(code) ==
    {c \in DOMAIN promoCodesTable : promoCodesTable[c].code = code}

PromoError(promoCode, now, subtotal) ==
    IF ~ promoCode.is_active THEN "PromoCodeNotActive"
    ELSE IF now < promoCode.valid_from \/ now > promoCode.valid_until
         THEN "PromoCodeNotValidNow"
    ELSE IF promoCode.max_uses # Null
            /\ promoCode.used_count >= Val(promoCode.max_uses)
         THEN "PromoCodeUsageLimit"
    ELSE IF promoCode.minimum_order_amount # Null
            /\ subtotal < Val(promoCode.minimum_order_amount)
         THEN "PromoCodeMinimumNotMet"
    ELSE "ok"

\* The discount without the cap of a fixed amount at the subtotal.
DiscountAmountUnclamped(promoCode, subtotal) ==
    IF promoCode.discount_percentage # Null
    THEN (subtotal * Unit * Val(promoCode.discount_percentage)) \div 100
    ELSE IF promoCode.discount_amount # Null
         THEN Val(promoCode.discount_amount) * Unit
    ELSE 0

\* The discount of createOrder, in 1/Unit cents.
DiscountAmount(promoCode, subtotal) ==
    IF promoCode.discount_percentage # Null
    THEN (subtotal * Unit * Val(promoCode.discount_percentage)) \div 100
    ELSE IF promoCode.discount_amount # Null
         THEN Min(Val(promoCode.discount_amount) * Unit, subtotal * Unit)
    ELSE 0

Nows == {0, 2, 3, 4}

CoPromoSelect(p, now) ==
    /\ proc[p].pc = "co_promo_select"
    /\ LET st == proc[p]
           ids == PromoIdsByCode(Val(st.input.promo_code))
       IN IF ids = {}
          THEN Abort(p, "PromoCodeInvalid")
          ELSE \E c \in ids :
                 LET promoCode == PromoView(p, c)
                     err == PromoError(promoCode, now, st.subtotal)
                 IN IF err # "ok"
                    THEN /\ proc' = [proc EXCEPT ![p] =
                              [Finish(p, err) EXCEPT
                                 !.promoCode = promoCode,
                                 !.now = Some(now)]]
                         /\ UNCHANGED << tables, bookedSlot >>
                    ELSE /\ proc' = [proc EXCEPT ![p] =
                              [st EXCEPT
                                 !.now = Some(now),
                                 !.promoCode = promoCode,
                                 !.promoCodeId = Some(c),
                                 !.discountAmount =
                                     DiscountAmount(promoCode, st.subtotal),
                                 !.pc = "co_promo_update"]]
                         /\ UNCHANGED << tables, bookedSlot >>

\* UPDATE promo_codes SET used_count = <value read before> + 1 WHERE id.
CoPromoUpdate(p) ==
    /\ proc[p].pc = "co_promo_update"
    /\ LET st == proc[p]
           c == Val(st.promoCodeId)
           row == [PromoView(p, c) EXCEPT
                     !.used_count = st.promoCode.used_count + 1]
       IN /\ ~ PromoLockedByOther(p, c)
          /\ proc' = [proc EXCEPT ![p] =
                 [st EXCEPT !.wPromos = Put(st.wPromos, c, row),
                            !.pc = "co_slot_select"]]
    /\ UNCHANGED << tables, bookedSlot >>

\* The slots the SELECT of createOrder returns for a pickup timestamp:
\* same date, start_time <= time, end_time >= time, is_available.
MatchingSlots(p, ts) ==
    {s \in DOMAIN timeSlotsTable :
        /\ SlotView(p, s).date = DateOf(ts)
        /\ SlotView(p, s).start_time <= TimeOf(ts)
        /\ SlotView(p, s).end_time >= TimeOf(ts)
        /\ SlotView(p, s).is_available}

\* timeSlots[0]: the query has no ORDER BY, any matching row can come first.
CoSlotSelect(p) ==
    /\ proc[p].pc = "co_slot_select"
    /\ LET st == proc[p]
           timeSlots == MatchingSlots(p, st.input.pickup_slot)
       IN IF timeSlots = {}
          THEN Abort(p, "NoAvailableSlot")
          ELSE \E s \in timeSlots :
                 LET timeSlot == SlotView(p, s)
                 IN IF timeSlot.current_bookings >= timeSlot.max_capacity
                    THEN Abort(p, "SlotFullyBooked")
                    ELSE /\ proc' = [proc EXCEPT ![p] =
                              [st EXCEPT
                                 !.timeSlot = [id |-> s, row |-> timeSlot],
                                 !.pc = "co_slot_update"]]
                         /\ UNCHANGED << tables, bookedSlot >>

\* The UPDATE of the slot counting the booking twice.
CoSlotUpdateTwice(p) ==
    /\ proc[p].pc = "co_slot_update"
    /\ LET st == proc[p]
           s == st.timeSlot.id
           row == [SlotView(p, s) EXCEPT
                     !.current_bookings = st.timeSlot.row.current_bookings + 2]
       IN /\ ~ SlotLockedByOther(p, s)
          /\ proc' = [proc EXCEPT ![p] =
                 [st EXCEPT !.wSlots = Put(st.wSlots, s, row),
                            !.pc = "co_insert"]]
    /\ UNCHANGED << tables, bookedSlot >>

\* UPDATE time_slots SET current_bookings = <value read before> + 1 WHERE id.
CoSlotUpdate(p) ==
    /\ proc[p].pc = "co_slot_update"
    /\ LET st == proc[p]
           s == st.timeSlot.id
           row == [SlotView(p, s) EXCEPT
                     !.current_bookings = st.timeSlot.row.current_bookings + 1]
       IN /\ ~ SlotLockedByOther(p, s)
          /\ proc' = [proc EXCEPT ![p] =
                 [st EXCEPT !.wSlots = Put(st.wSlots, s, row),
                            !.pc = "co_insert"]]
    /\ UNCHANGED << tables, bookedSlot >>

\* The order row createOrder inserts.  order_number is a fresh random
\* string and qr_code is derived from it: both are modelled by the number of
\* the order, which no other order has.
OrderRow(st) ==
    LET discountedSubtotal == st.subtotal * Unit - st.discountAmount
        taxAmount == (discountedSubtotal * TAX_RATE) \div 100
        totalAmount == discountedSubtotal + taxAmount
    IN [order_number |-> Len(ordersTable) + 1,
        qr_code |-> Len(ordersTable) + 1,
        customer_id |-> st.customerId,
        user_id |-> st.input.user_id,
        status |-> "new",
        pickup_slot |-> st.input.pickup_slot,
        total_amount |-> RoundCents(totalAmount),
        tax_amount |-> RoundCents(taxAmount),
        internal_notes |-> Null,
        is_guest_order |-> (st.input.user_id = Null)]

ItemRows(orderId, validatedItems) ==
    {[order_id |-> orderId, line |-> k,
      dish_id |-> validatedItems[k].dish_id,
      variant_id |-> validatedItems[k].variant_id,
      quantity |-> validatedItems[k].quantity,
      unit_price |-> validatedItems[k].unit_price,
      total_price |-> validatedItems[k].total_price] :
        k \in 1..Len(validatedItems)}

\* The transaction's writes reach the tables and its locks are released.
Commit(st) ==
    /\ dishesTable' = Overlay(dishesTable, st.wDishes)
    /\ promoCodesTable' = Overlay(promoCodesTable, st.wPromos)
    /\ timeSlotsTable' = Overlay(timeSlotsTable, st.wSlots)
    /\ customersTable' = IF st.wCustomer # Null
                         THEN customersTable \cup {Val(st.wCustomer)}
                         ELSE customersTable

\* INSERT of the order, its items and its promo link; then the transaction
\* commits.  A user_id that is no row of users violates the foreign key.
CoInsert(p) ==
    /\ proc[p].pc = "co_insert"
    /\ LET st == proc[p]
           orderId == Len(ordersTable) + 1
       IN IF st.input.user_id # Null /\ Val(st.input.user_id) \notin usersTable
          THEN Abort(p, "ForeignKeyViolation")
          ELSE /\ Commit(st)
               /\ ordersTable' = Append(ordersTable, OrderRow(st))
               /\ orderItemsTable' =
                      orderItemsTable \cup ItemRows(orderId, st.validatedItems)
               /\ orderPromoCodesTable' =
                      IF st.promoCodeId # Null
                      THEN orderPromoCodesTable \cup
                           {[order_id |-> orderId,
                             promo_code_id |-> Val(st.promoCodeId),
                             discount_applied |-> RoundCents(st.discountAmount)]}
                      ELSE orderPromoCodesTable
               /\ bookedSlot' = Put(bookedSlot, orderId, st.timeSlot.id)
               /\ proc' = [proc EXCEPT ![p] = Finish(p, "ok")]
               /\ UNCHANGED << dishVariantsTable, paymentsTable, usersTable >>

\* The row a transaction waits for, if its next statement is an UPDATE of a
\* row another transaction has locked: the set of processes it waits for.
WaitsFor(p) ==
    LET st == proc[p]
    IN IF st.pc = "co_dish_update"
       THEN {q \in Procs \ {p} : InTx(q)
                /\ st.input.items[st.i].dish_id \in DOMAIN proc[q].wDishes}
       ELSE IF st.pc = "co_promo_update"
       THEN {q \in Procs \ {p} : InTx(q)
                /\ Val(st.promoCodeId) \in DOMAIN proc[q].wPromos}
       ELSE IF st.pc = "co_slot_update"
       THEN {q \in Procs \ {p} : InTx(q)
                /\ st.timeSlot.id \in DOMAIN proc[q].wSlots}
       ELSE {}

\* The processes reachable from p along waits-for edges in at most n steps.
RECURSIVE WaitReach(_, _)
WaitReach(S, n) ==
    IF n = 0 THEN S
    ELSE WaitReach(S \cup UNION {WaitsFor(q) : q \in S}, n - 1)

\* No detection of waits-for cycles.
DeadlockUndetected(p) == FALSE

InDeadlock(p) == \E q \in WaitsFor(p) : p \in WaitReach({q}, NProcs)

\* PostgreSQL's deadlock detector: a transaction in a waits-for cycle is
\* rolled back with "deadlock detected".
CoDeadlock(p) ==
    /\ InTx(p)
    /\ InDeadlock(p)
    /\ Abort(p, "DeadlockDetected")

\* The request's result has been delivered; the process is free again.
Return(p) ==
    /\ proc[p].pc = "done"
    /\ proc' = [proc EXCEPT ![p] = Blank]
    /\ UNCHANGED << tables, bookedSlot >>

\* --------------------------------------------------------------- payments
\* Every new payment waiting as pending, whatever its method.
InitialStatusPending(method) == "pending"

\* The status a new payment starts in.
InitialStatus(method) ==
    IF method = "online" THEN "authorized" ELSE "pending"

\* createPayment: the order must exist; an online payment is authorized at
\* once, an on-site payment waits as pending.  The requests carry no
\* transaction_id of their own (the field is optional), so the row starts
\* with none.
CreatePayment(p, order_id, method) ==
    /\ proc[p].pc = "idle"
    /\ Len(paymentsTable) < MaxPayments
    /\ LET st == [Blank EXCEPT !.op = "createPayment",
                               !.input = [order_id |-> order_id,
                                          method |-> method]]
       IN IF order_id \notin DOMAIN ordersTable
          THEN /\ proc' = [proc EXCEPT ![p] =
                              [st EXCEPT !.pc = "done",
                                         !.res = "OrderNotFound"]]
               /\ UNCHANGED paymentsTable
          ELSE /\ paymentsTable' = Append(paymentsTable,
                      [order_id |-> order_id, method |-> method,
                       status |-> InitialStatus(method),
                       processed_at |-> IF method = "online" THEN Some("now")
                                        ELSE Null,
                       transaction_id |-> Null])
               /\ proc' = [proc EXCEPT ![p] =
                              [st EXCEPT !.pc = "done", !.res = "ok"]]
    /\ UNCHANGED << dishesTable, dishVariantsTable, timeSlotsTable,
                    promoCodesTable, customersTable, ordersTable,
                    orderItemsTable, orderPromoCodesTable, usersTable,
                    bookedSlot >>

\* The statuses processPayment accepts, any status at all.
ProcessableAnyStatus ==
    {"pending", "authorized", "captured", "refunded", "failed"}

\* The statuses processPayment accepts.
Processable == {"authorized", "pending"}

\* processPayment: a pending or authorized payment is captured.
ProcessPayment(p, paymentId) ==
    /\ proc[p].pc = "idle"
    /\ LET st == [Blank EXCEPT !.op = "processPayment",
                               !.input = [paymentId |-> paymentId]]
       IN IF paymentId \notin DOMAIN paymentsTable
          THEN /\ proc' = [proc EXCEPT ![p] =
                              [st EXCEPT !.pc = "done",
                                         !.res = "PaymentNotFound"]]
               /\ UNCHANGED paymentsTable
          ELSE IF paymentsTable[paymentId].status \notin Processable
          THEN /\ proc' = [proc EXCEPT ![p] =
                              [st EXCEPT !.pc = "done",
                                         !.res = "CannotProcessPayment"]]
               /\ UNCHANGED paymentsTable
          ELSE /\ paymentsTable' = [paymentsTable EXCEPT ![paymentId] =
                      [@ EXCEPT !.status = "captured",
                                !.transaction_id = Some("txn"),
                                !.processed_at = Some("now")]]
               /\ proc' = [proc EXCEPT ![p] =
                              [st EXCEPT !.pc = "done", !.res = "ok"]]
    /\ UNCHANGED << dishesTable, dishVariantsTable, timeSlotsTable,
                    promoCodesTable, customersTable, ordersTable,
                    orderItemsTable, orderPromoCodesTable, usersTable,
                    bookedSlot >>

\* ------------------------------------------------------- updateOrderStatus
OrderStatuses == {"new", "preparing", "ready", "picked_up", "cancelled"}

\* validTransitions with every status also allowed to follow itself.
validTransitionsSameState ==
    [s \in OrderStatuses |->
        CASE s = "new" -> {"new", "preparing", "cancelled"}
          [] s = "preparing" -> {"preparing", "ready", "cancelled"}
          [] s = "ready" -> {"ready", "picked_up", "cancelled"}
          [] s = "picked_up" -> {"picked_up"}
          [] s = "cancelled" -> {"cancelled"}]

\* validTransitions with a cancelled order allowed back to new.
validTransitionsReopen ==
    [s \in OrderStatuses |->
        CASE s = "new" -> {"preparing", "cancelled"}
          [] s = "preparing" -> {"ready", "cancelled"}
          [] s = "ready" -> {"picked_up", "cancelled"}
          [] s = "picked_up" -> {}
          [] s = "cancelled" -> {"new"}]

validTransitions ==
    [s \in OrderStatuses |->
        CASE s = "new" -> {"preparing", "cancelled"}
          [] s = "preparing" -> {"ready", "cancelled"}
          [] s = "ready" -> {"picked_up", "cancelled"}
          [] s = "picked_up" -> {}
          [] s = "cancelled" -> {}]

StatusInput(id, status, notes) ==
    [id |-> id, status |-> status, internal_notes |-> notes]

\* The statement that follows the validation, by the requested status.
UosAfterValidation(status) ==
    IF status = "ready" THEN "uos_capture"
    ELSE IF status = "cancelled" THEN "uos_refund"
    ELSE "uos_order_update"

\* SELECT of the order and the check of the transition.
UosBegin(p, input) ==
    /\ proc[p].pc = "idle"
    /\ LET st == [Blank EXCEPT !.op = "updateOrderStatus", !.input = input,
                               !.slotsBefore = timeSlotsTable,
                               !.paymentsBefore = paymentsTable,
                               !.dishesBefore = dishesTable]
       IN IF input.id \notin DOMAIN ordersTable
          THEN proc' = [proc EXCEPT ![p] =
                           [st EXCEPT !.pc = "done", !.res = "OrderNotFound"]]
          ELSE LET existingOrder == ordersTable[input.id]
               IN IF input.status \notin validTransitions[existingOrder.status]
                  THEN proc' = [proc EXCEPT ![p] =
                           [st EXCEPT !.pc = "done",
                                      !.res = "InvalidTransition"]]
                  ELSE proc' = [proc EXCEPT ![p] =
                           [st EXCEPT !.existingOrder = existingOrder,
                                      !.pc = UosAfterValidation(input.status)]]
    /\ UNCHANGED << tables, bookedSlot >>

\* UPDATE payments SET status = to WHERE order_id = id AND status IN from.
SetPayments(id, from, to) ==
    [k \in DOMAIN paymentsTable |->
        IF paymentsTable[k].order_id = id /\ paymentsTable[k].status \in from
        THEN [paymentsTable[k] EXCEPT !.status = to,
                                      !.processed_at = Some("now")]
        ELSE paymentsTable[k]]

\* The capture on ready taking the authorized payments along.
CapturedOnReadyAll == {"pending", "authorized"}

CapturedOnReady == {"pending"}
RefundedOnCancel == {"captured"}

UosCapture(p) ==
    /\ proc[p].pc = "uos_capture"
    /\ paymentsTable' = SetPayments(proc[p].input.id, CapturedOnReady,
                                    "captured")
    /\ proc' = [proc EXCEPT ![p].pc = "uos_order_update"]
    /\ UNCHANGED << dishesTable, dishVariantsTable, timeSlotsTable,
                    promoCodesTable, customersTable, ordersTable,
                    orderItemsTable, orderPromoCodesTable, usersTable,
                    bookedSlot >>

UosRefund(p) ==
    /\ proc[p].pc = "uos_refund"
    /\ paymentsTable' = SetPayments(proc[p].input.id, RefundedOnCancel,
                                    "refunded")
    /\ proc' = [proc EXCEPT ![p].pc = "uos_slot_select"]
    /\ UNCHANGED << dishesTable, dishVariantsTable, timeSlotsTable,
                    promoCodesTable, customersTable, ordersTable,
                    orderItemsTable, orderPromoCodesTable, usersTable,
                    bookedSlot >>

\* The slots the cancellation releases: same date, start_time equal to the
\* pickup time.
ReleasedSlots(ts) ==
    {s \in DOMAIN timeSlotsTable :
        /\ timeSlotsTable[s].date = DateOf(ts)
        /\ timeSlotsTable[s].start_time = TimeOf(ts)}

\* The decrement without its floor.
ReleasedBookingsUnclamped(current_bookings) == current_bookings - 1

\* currentBookings = Math.max(0, current_bookings - 1).
ReleasedBookings(current_bookings) == Max(0, current_bookings - 1)

UosSlotSelect(p) ==
    /\ proc[p].pc = "uos_slot_select"
    /\ LET st == proc[p]
           timeSlots == ReleasedSlots(st.existingOrder.pickup_slot)
       IN IF timeSlots = {}
          THEN proc' = [proc EXCEPT ![p].pc = "uos_order_update"]
          ELSE \E s \in timeSlots :
                 proc' = [proc EXCEPT ![p] =
                    [st EXCEPT
                       !.currentBookings =
                           ReleasedBookings(
                               timeSlotsTable[s].current_bookings),
                       !.pc = "uos_slot_update"]]
    /\ UNCHANGED << tables, bookedSlot >>

\* UPDATE time_slots SET current_bookings WHERE date AND start_time; it
\* waits while a transaction holds the lock of a row it updates.
UosSlotUpdate(p) ==
    /\ proc[p].pc = "uos_slot_update"
    /\ LET st == proc[p]
           rows == ReleasedSlots(st.existingOrder.pickup_slot)
       IN /\ \A s \in rows : ~ SlotLockedByOther(p, s)
          /\ timeSlotsTable' =
                 [s \in DOMAIN timeSlotsTable |->
                     IF s \in rows
                     THEN [timeSlotsTable[s] EXCEPT
                              !.current_bookings = st.currentBookings]
                     ELSE timeSlotsTable[s]]
    /\ proc' = [proc EXCEPT ![p].pc = "uos_order_update"]
    /\ UNCHANGED << dishesTable, dishVariantsTable, promoCodesTable,
                    customersTable, ordersTable, orderItemsTable,
                    orderPromoCodesTable, paymentsTable, usersTable,
                    bookedSlot >>

\* UPDATE orders SET status, updated_at [, internal_notes] WHERE id.
\* The update writing a whole row: what the input does not carry is reset.
UpdateDataWholeRow(order, input) ==
    [order EXCEPT !.status = input.status,
                  !.internal_notes = input.internal_notes,
                  !.qr_code = 0]

\* updateData applied to the row: status, and internal_notes when given.
UpdateData(order, input) ==
    [order EXCEPT !.status = input.status,
                  !.internal_notes =
                      IF input.internal_notes # Null
                      THEN input.internal_notes ELSE @]

UosOrderUpdate(p) ==
    /\ proc[p].pc = "uos_order_update"
    /\ LET input == proc[p].input
       IN ordersTable' = [ordersTable EXCEPT ![input.id] =
                             UpdateData(@, input)]
    /\ proc' = [proc EXCEPT ![p] = Finish(p, "ok")]
    /\ UNCHANGED << dishesTable, dishVariantsTable, timeSlotsTable,
                    promoCodesTable, customersTable, orderItemsTable,
                    orderPromoCodesTable, paymentsTable, usersTable,
                    bookedSlot >>

UosPcs == {"uos_capture", "uos_refund", "uos_slot_select", "uos_slot_update",
           "uos_order_update"}

\* A statement of updateOrderStatus throws (connection lost, statement
\* timeout): the handler rethrows, and what it wrote so far stays written.
UosFail(p) ==
    /\ proc[p].pc \in UosPcs
    /\ proc' = [proc EXCEPT ![p] = Finish(p, "InfrastructureError")]
    /\ UNCHANGED << tables, bookedSlot >>

\* ------------------------------------------------------------- cancelOrder
\* The quantity of dish d on the lines k..n of order o.
RECURSIVE OrderedQuantity(_, _, _)
OrderedQuantity(o, d, k) ==
    LET rows == {r \in orderItemsTable : r.order_id = o /\ r.line = k}
    IN IF rows = {} THEN 0
       ELSE LET r == CHOOSE x \in rows : TRUE
            IN (IF r.dish_id = d THEN r.quantity ELSE 0)
               + OrderedQuantity(o, d, k + 1)

\* The slot a pickup timestamp lies in: same date, start <= time < end.
SlotsContaining(ts) ==
    {s \in DOMAIN timeSlotsTable :
        /\ timeSlotsTable[s].date = DateOf(ts)
        /\ timeSlotsTable[s].start_time <= TimeOf(ts)
        /\ TimeOf(ts) < timeSlotsTable[s].end_time}

RestoredDish(o, d) ==
    LET dish == dishesTable[d]
        q == OrderedQuantity(o, d, 1)
    IN IF dish.stock_quantity = Null \/ q = 0 THEN dish
       ELSE [dish EXCEPT
               !.stock_quantity = Some(Val(dish.stock_quantity) + q),
               !.status = IF dish.status = "out_of_stock"
                             /\ Val(dish.stock_quantity) + q > 0
                          THEN "available" ELSE dish.status]

\* The guards of cancelOrder without those on the terminal states.
CancelErrorUnguarded(orderId) ==
    IF orderId \notin DOMAIN ordersTable THEN "OrderNotFound" ELSE "ok"

\* The guards of cancelOrder: the order exists and is in no terminal state.
CancelError(orderId) ==
    IF orderId \notin DOMAIN ordersTable THEN "OrderNotFound"
    ELSE IF ordersTable[orderId].status = "cancelled" THEN "AlreadyCancelled"
    ELSE IF ordersTable[orderId].status = "picked_up" THEN "AlreadyPickedUp"
    ELSE "ok"

\* cancelOrder, one transaction: guards on the terminal states, then the
\* refunds, the stock, the slot and the order row together.
CancelOrder(p, orderId, reason) ==
    /\ proc[p].pc = "idle"
    /\ LET st == [Blank EXCEPT !.op = "cancelOrder",
                               !.input = [id |-> orderId, reason |-> reason],
                               !.slotsBefore = timeSlotsTable,
                               !.paymentsBefore = paymentsTable,
                               !.dishesBefore = dishesTable]
           err == CancelError(orderId)
       IN IF err # "ok"
          THEN /\ proc' = [proc EXCEPT ![p] =
                              [st EXCEPT !.pc = "done", !.res = err]]
               /\ UNCHANGED << dishesTable, timeSlotsTable, ordersTable,
                               paymentsTable >>
          ELSE LET slots == SlotsContaining(ordersTable[orderId].pickup_slot)
               IN /\ \A d \in DOMAIN dishesTable :
                        OrderedQuantity(orderId, d, 1) > 0
                            => ~ DishLockedByOther(p, d)
                  /\ \A s \in slots : ~ SlotLockedByOther(p, s)
                  /\ paymentsTable' = SetPayments(orderId,
                         {"authorized", "captured"}, "refunded")
                  /\ dishesTable' = [d \in DOMAIN dishesTable |->
                                        RestoredDish(orderId, d)]
                  /\ timeSlotsTable' =
                         [s \in DOMAIN timeSlotsTable |->
                             IF s \in slots
                             THEN [timeSlotsTable[s] EXCEPT
                                     !.current_bookings = Max(0, @ - 1)]
                             ELSE timeSlotsTable[s]]
                  /\ ordersTable' = [ordersTable EXCEPT ![orderId] =
                         [@ EXCEPT !.status = "cancelled",
                                   !.internal_notes = Some(reason)]]
                  /\ proc' = [proc EXCEPT ![p] =
                                 [st EXCEPT !.pc = "done", !.res = "ok"]]
    /\ UNCHANGED << dishVariantsTable, promoCodesTable, customersTable,
                    orderItemsTable, orderPromoCodesTable, usersTable,
                    bookedSlot >>

\* ---------------------------------------------------------- updateDishStock
DishStockInput(id, stock_quantity, status) ==
    [id |-> id, stock_quantity |-> stock_quantity, status |-> status]

\* statusToSet deaf to the explicit status: the stock alone decides.
StatusToSetFromStock(dish, input) ==
    IF input.stock_quantity = Some(0) THEN "out_of_stock"
    ELSE IF dish.status = "out_of_stock" THEN "available"
    ELSE dish.status

\* statusToSet with the automatic status left out: the dish keeps its own.
StatusToSetKeep(dish, input) ==
    IF input.status # Null THEN Val(input.status) ELSE dish.status

\* statusToSet: the explicit status; without one, out_of_stock at stock 0,
\* else available for a dish that was out_of_stock, else the status read.
StatusToSet(dish, input) ==
    IF input.status # Null THEN Val(input.status)
    ELSE IF input.stock_quantity = Some(0) THEN "out_of_stock"
    ELSE IF dish.status = "out_of_stock" THEN "available"
    ELSE dish.status

\* SELECT of the dish.
UdsBegin(p, input) ==
    /\ proc[p].pc = "idle"
    /\ LET st == [Blank EXCEPT !.op = "updateDishStock", !.input = input,
                               !.dishesBefore = dishesTable]
       IN IF input.id \notin DOMAIN dishesTable
          THEN proc' = [proc EXCEPT ![p] =
                           [st EXCEPT !.pc = "done", !.res = "DishNotFound"]]
          ELSE proc' = [proc EXCEPT ![p] =
                           [st EXCEPT !.dish = dishesTable[input.id],
                                      !.pc = "uds_update"]]
    /\ UNCHANGED << tables, bookedSlot >>

\* UPDATE dishes SET stock_quantity, status WHERE id; it waits while a
\* transaction holds the lock of the row.
UdsUpdate(p) ==
    /\ proc[p].pc = "uds_update"
    /\ LET st == proc[p]
           d == st.input.id
       IN /\ ~ DishLockedByOther(p, d)
          /\ dishesTable' = [dishesTable EXCEPT ![d] =
                 [@ EXCEPT !.stock_quantity = st.input.stock_quantity,
                           !.status = StatusToSet(st.dish, st.input)]]
    /\ proc' = [proc EXCEPT ![p] = Finish(p, "ok")]
    /\ UNCHANGED << dishVariantsTable, timeSlotsTable, promoCodesTable,
                    customersTable, ordersTable, orderItemsTable,
                    orderPromoCodesTable, paymentsTable, usersTable,
                    bookedSlot >>

\* ----------------------------------------------------------- createTimeSlot
\* start_time and end_time arrive as strings (z.string()).  A string is the
\* sequence of its characters in code-unit order: the digits 0..9, then the
\* colon (10).  A time of day is written with or without a leading zero.
TimeText(hour, padded) ==
    (IF padded THEN << 0 >> ELSE << >>) \o << hour, 10, 0, 0 >>

\* a >= b on JavaScript strings: code unit by code unit, a proper prefix
\* being the smaller.
RECURSIVE StringGeq(_, _)
StringGeq(a, b) ==
    IF b = << >> THEN TRUE
    ELSE IF a = << >> THEN FALSE
    ELSE IF Head(a) # Head(b) THEN Head(a) > Head(b)
    ELSE StringGeq(Tail(a), Tail(b))

RECURSIVE DigitsValue(_, _)
DigitsValue(text, n) ==
    IF n = 0 THEN 0 ELSE DigitsValue(text, n - 1) * 10 + text[n]

\* text::time, the value PostgreSQL stores and compares (minutes are 00).
ParseTime(text) ==
    LET colon == CHOOSE k \in 1..Len(text) :
                     text[k] = 10 /\ \A j \in 1..(k - 1) : text[j] # 10
    IN DigitsValue(text, colon - 1)

TimeSlotInput(date, start_time, end_time) ==
    [date |-> date, start_time |-> start_time, end_time |-> end_time,
     max_capacity |-> 1, is_available |-> TRUE]

\* The WHERE clause of the overlap query for one stored slot.
OverlapsSlot(input, slot) ==
    LET start == ParseTime(input.start_time)
        end == ParseTime(input.end_time)
    IN /\ slot.date = input.date
       /\ \/ start >= slot.start_time /\ start < slot.end_time
          \/ end > slot.start_time /\ end <= slot.end_time
          \/ start <= slot.start_time /\ end >= slot.end_time

\* The range check and the SELECT of the overlapping slots.
CtsBegin(p, input) ==
    /\ proc[p].pc = "idle"
    /\ Len(timeSlotsTable)
          + Cardinality({q \in Procs : proc[q].pc = "cts_insert"}) < MaxSlots
    /\ LET st == [Blank EXCEPT !.op = "createTimeSlot", !.input = input]
           overlappingSlots == {s \in DOMAIN timeSlotsTable :
                                   OverlapsSlot(input, timeSlotsTable[s])}
       IN proc' = [proc EXCEPT ![p] =
              IF StringGeq(input.start_time, input.end_time)
              THEN [st EXCEPT !.pc = "done", !.res = "EndNotAfterStart"]
              ELSE IF overlappingSlots # {}
              THEN [st EXCEPT !.pc = "done", !.res = "SlotOverlaps"]
              ELSE [st EXCEPT !.pc = "cts_insert"]]
    /\ UNCHANGED << tables, bookedSlot >>

\* INSERT INTO time_slots.
CtsInsert(p) ==
    /\ proc[p].pc = "cts_insert"
    /\ LET input == proc[p].input
       IN timeSlotsTable' = Append(timeSlotsTable,
              [date |-> input.date,
               start_time |-> ParseTime(input.start_time),
               end_time |-> ParseTime(input.end_time),
               max_capacity |-> input.max_capacity,
               current_bookings |-> 0,
               is_available |-> input.is_available])
    /\ proc' = [proc EXCEPT ![p] = Finish(p, "ok")]
    /\ UNCHANGED << dishesTable, dishVariantsTable, promoCodesTable,
                    customersTable, ordersTable, orderItemsTable,
                    orderPromoCodesTable, paymentsTable, usersTable,
                    bookedSlot >>

\* ---------------------------------------------------------- createPromoCode
PromoCodeInput(code, percentage, amount, valid_from, valid_until) ==
    [code |-> code, discount_percentage |-> percentage,
     discount_amount |-> amount, minimum_order_amount |-> Null,
     max_uses |-> Null, valid_from |-> valid_from,
     valid_until |-> valid_until]

\* JavaScript truthiness of a nullable number: null and 0 are falsy.
Truthy(o) == o # Null /\ Val(o) # 0

\* The checks made before the database is read.
PromoInputError(input) ==
    IF Truthy(input.discount_percentage) /\ Truthy(input.discount_amount)
    THEN "BothDiscounts"
    ELSE IF ~ Truthy(input.discount_percentage)
            /\ ~ Truthy(input.discount_amount)
    THEN "NoDiscount"
    ELSE IF input.valid_from >= input.valid_until
    THEN "InvalidDateRange"
    ELSE "ok"

\* The input checks and the SELECT of the promo codes with the input's code.
CpcBegin(p, input) ==
    /\ proc[p].pc = "idle"
    /\ Len(promoCodesTable) < MaxPromos
    /\ LET st == [Blank EXCEPT !.op = "createPromoCode", !.input = input]
           err == PromoInputError(input)
       IN proc' = [proc EXCEPT ![p] =
              IF err # "ok"
              THEN [st EXCEPT !.pc = "done", !.res = err]
              ELSE IF PromoIdsByCode(input.code) # {}
              THEN [st EXCEPT !.pc = "done", !.res = "PromoCodeExists"]
              ELSE [st EXCEPT !.pc = "cpc_insert"]]
    /\ UNCHANGED << tables, bookedSlot >>

\* INSERT INTO promo_codes; value?.toString() || null keeps every number
\* that is not null (the string "0" is truthy).  The unique constraint on
\* code rejects a code stored in the meantime.
CpcInsert(p) ==
    /\ proc[p].pc = "cpc_insert"
    /\ LET input == proc[p].input
       IN IF PromoIdsByCode(input.code) # {}
          THEN /\ proc' = [proc EXCEPT ![p] = Finish(p, "UniqueViolation")]
               /\ UNCHANGED promoCodesTable
          ELSE /\ promoCodesTable' = Append(promoCodesTable,
                     [code |-> input.code,
                      discount_percentage |-> input.discount_percentage,
                      discount_amount |-> input.discount_amount,
                      minimum_order_amount |-> input.minimum_order_amount,
                      max_uses |-> input.max_uses,
                      used_count |-> 0,
                      valid_from |-> input.valid_from,
                      valid_until |-> input.valid_until,
                      is_active |-> TRUE])
               /\ proc' = [proc EXCEPT ![p] = Finish(p, "ok")]
    /\ UNCHANGED << dishesTable, dishVariantsTable, timeSlotsTable,
                    customersTable, ordersTable, orderItemsTable,
                    orderPromoCodesTable, paymentsTable, usersTable,
                    bookedSlot >>

\* -------------------------------------------------------- createDishVariant
VariantInput(dish_id, price_modifier, is_default) ==
    [dish_id |-> dish_id, price_modifier |-> price_modifier,
     is_default |-> is_default]

\* The new variant appended, the dish's default left as it is.
VariantsAppended(input) == Append(dishVariantsTable, input)

\* The variants after a creation: a new default unsets the default of the
\* dish's other variants, then the new variant is appended.
VariantsAfterCreate(input) ==
    Append([v \in DOMAIN dishVariantsTable |->
               IF input.is_default
                  /\ dishVariantsTable[v].dish_id = input.dish_id
               THEN [dishVariantsTable[v] EXCEPT !.is_default = FALSE]
               ELSE dishVariantsTable[v]],
           input)

\* createDishVariant: the dish must exist; the default is moved and the
\* variant stored in one step.
CreateDishVariant(p, input) ==
    /\ proc[p].pc = "idle"
    /\ Len(dishVariantsTable) < MaxVariants
    /\ LET st == [Blank EXCEPT !.op = "createDishVariant", !.input = input]
       IN IF input.dish_id \notin DOMAIN dishesTable
          THEN /\ proc' = [proc EXCEPT ![p] =
                              [st EXCEPT !.pc = "done", !.res = "DishNotFound"]]
               /\ UNCHANGED dishVariantsTable
          ELSE /\ dishVariantsTable' = VariantsAfterCreate(input)
               /\ proc' = [proc EXCEPT ![p] =
                              [st EXCEPT !.pc = "done", !.res = "ok"]]
    /\ UNCHANGED << dishesTable, timeSlotsTable, promoCodesTable,
                    customersTable, ordersTable, orderItemsTable,
                    orderPromoCodesTable, paymentsTable, usersTable,
                    bookedSlot >>

\* --------------------------------------------------------- validatePromoCode
\* The checks of validatePromoCode on the row read, in their order.
ValidationError(promoCode, now, orderAmount) ==
    IF ~ promoCode.is_active THEN "PromoCodeNotActive"
    ELSE IF now < promoCode.valid_from THEN "PromoCodeNotYetValid"
    ELSE IF now > promoCode.valid_until THEN "PromoCodeExpired"
    ELSE IF promoCode.max_uses # Null
            /\ promoCode.used_count >= Val(promoCode.max_uses)
         THEN "PromoCodeUsageLimit"
    ELSE IF promoCode.minimum_order_amount # Null
            /\ orderAmount < Val(promoCode.minimum_order_amount)
         THEN "PromoCodeMinimumNotMet"
    ELSE "ok"

\* The discount validatePromoCode reports, in 1/Unit cents: the percentage of
\* the order amount or the fixed amount, and never more than the order amount.
ValidationDiscount(promoCode, orderAmount) ==
    LET discount ==
            IF promoCode.discount_percentage # Null
            THEN (orderAmount * Val(promoCode.discount_percentage) * Unit)
                     \div 100
            ELSE IF promoCode.discount_amount # Null
                 THEN Val(promoCode.discount_amount) * Unit
            ELSE 0
    IN Min(discount, orderAmount * Unit)

\* What a call returns: valid or the error in res, the row in promoCode, the
\* discount in discountAmount.
ValidationResult(code, orderAmount, now) ==
    LET st == [Blank EXCEPT !.op = "validatePromoCode",
                            !.input = [code |-> code,
                                       orderAmount |-> orderAmount],
                            !.pc = "done"]
        ids == PromoIdsByCode(code)
    IN IF ids = {}
       THEN [st EXCEPT !.res = "PromoCodeNotFound"]
       ELSE LET promoCode == promoCodesTable[CHOOSE c \in ids : TRUE]
                err == ValidationError(promoCode, now, orderAmount)
            IN IF err # "ok"
               THEN [st EXCEPT !.res = err, !.promoCode = promoCode,
                               !.now = Some(now)]
               ELSE [st EXCEPT !.res = "ok", !.promoCode = promoCode,
                               !.now = Some(now),
                               !.discountAmount =
                                   ValidationDiscount(promoCode, orderAmount)]

\* validatePromoCode with an UPDATE that counts the validation as a use.
ValidatePromoCodeCounted(p, code, orderAmount, now) ==
    /\ proc[p].pc = "idle"
    /\ proc' = [proc EXCEPT ![p] = ValidationResult(code, orderAmount, now)]
    /\ promoCodesTable' =
           [c \in DOMAIN promoCodesTable |->
               IF promoCodesTable[c].code = code
               THEN [promoCodesTable[c] EXCEPT !.used_count = @ + 1]
               ELSE promoCodesTable[c]]
    /\ UNCHANGED << dishesTable, dishVariantsTable, timeSlotsTable,
                    customersTable, ordersTable, orderItemsTable,
                    orderPromoCodesTable, paymentsTable, usersTable,
                    bookedSlot >>

\* validatePromoCode: one SELECT by code, then checks and arithmetic on the
\* row; no statement writes.
ValidatePromoCode(p, code, orderAmount, now) ==
    /\ proc[p].pc = "idle"
    /\ proc' = [proc EXCEPT ![p] = ValidationResult(code, orderAmount, now)]
    /\ UNCHANGED << tables, bookedSlot >>

\* ------------------------------------------------------------ the requests
\* A placement by a guest.  In the slots of Init, pickup 0 is the start of
\* slot 1, 1 lies inside slot 1, 2 is the end of slot 1 and the start of
\* slot 2, DayLen is on a day without slots.
Guest(ts, items, promo) == OrderInput(TRUE, Null, ts, items, promo)

OrderIds == 1..(MaxOrders + 1)
PaymentIds == 1..(MaxPayments + 1)
Methods == {"on_site", "online"}

Begin(p, orderInputs, statusInputs, cancelIds, paymentInputs, processIds) ==
    \/ \E input \in orderInputs : CoBegin(p, input)
    \/ \E input \in statusInputs : UosBegin(p, input)
    \/ \E id \in cancelIds : CancelOrder(p, id, "Order cancelled")
    \/ \E pi \in paymentInputs : CreatePayment(p, pi[1], pi[2])
    \/ \E id \in processIds : ProcessPayment(p, id)

CoStep(p) ==
    \/ CoDishSelect(p)
    \/ CoDishUpdate(p)
    \/ \E now \in Nows : CoPromoSelect(p, now)
    \/ CoPromoUpdate(p)
    \/ CoSlotSelect(p)
    \/ CoSlotUpdate(p)
    \/ CoInsert(p)

UosStep(p) ==
    \/ UosCapture(p)
    \/ UosRefund(p)
    \/ UosSlotSelect(p)
    \/ UosSlotUpdate(p)
    \/ UosOrderUpdate(p)

\* Requests one after the other: process 1 runs each to its end.
LifeOrderInputs ==
    { Guest(0, << Item(1, Null, 1) >>, Some("P1")),
      Guest(3, << Item(3, Null, 1) >>, Null) }

LifeStatusInputs ==
    {StatusInput(id, s, Null) : id \in 1..MaxOrders, s \in OrderStatuses}
    \cup {StatusInput(MaxOrders + 1, "preparing", Null)}

Next ==
    \/ Begin(1, LifeOrderInputs, LifeStatusInputs, OrderIds,
             {1} \X Methods, PaymentIds)
    \/ CoStep(1)
    \/ UosStep(1)
    \/ Return(1)

Spec == Init /\ [][Next]_vars

\* The same requests, any statement of updateOrderStatus being one at
\* which the database can fail.
NextFail ==
    \/ Next
    \/ UosFail(1)

SpecFail == Init /\ [][NextFail]_vars

\* Placements and cancellations one after the other, on every kind of dish
\* and pickup time.
StockOrderInputs ==
    { Guest(0, << Item(2, Null, 1), Item(3, Null, 1) >>, Null),
      Guest(1, << Item(1, Null, 1), Item(1, Null, 1) >>, Null),
      Guest(2, << Item(3, Null, 1) >>, Null),
      Guest(3, << Item(1, Null, 2) >>, Some("P1")),
      Guest(DayLen, << Item(2, Null, 1) >>, Null) }

StockStatusInputs ==
    {StatusInput(id, s, Null) :
        id \in 1..MaxOrders, s \in {"preparing", "cancelled"}}

NextStock ==
    \/ \E input \in StockOrderInputs : CoBegin(1, input)
    \/ \E input \in StockStatusInputs : UosBegin(1, input)
    \/ \E id \in 1..MaxOrders : CancelOrder(1, id, "Order cancelled")
    \/ CoStep(1)
    \/ UosRefund(1)
    \/ UosSlotSelect(1)
    \/ UosSlotUpdate(1)
    \/ UosOrderUpdate(1)
    \/ Return(1)

SpecStock == Init /\ [][NextStock]_vars

\* Placements, cancellations and stock updates without an explicit status,
\* one after the other.
DishOrderInputs ==
    { Guest(3, << Item(1, Null, 2) >>, Some("P1")),
      Guest(2, << Item(2, Null, 1), Item(3, Null, 1) >>, Null) }

DishStockInputs ==
    { DishStockInput(1, Some(0), Null), DishStockInput(1, Some(1), Null),
      DishStockInput(2, Some(3), Null), DishStockInput(2, Null, Null),
      DishStockInput(5, Some(1), Null) }

NextDish ==
    \/ \E input \in DishOrderInputs : CoBegin(1, input)
    \/ CoStep(1)
    \/ \E id \in 1..MaxOrders : UosBegin(1, StatusInput(id, "cancelled", Null))
    \/ UosRefund(1)
    \/ UosSlotSelect(1)
    \/ UosSlotUpdate(1)
    \/ UosOrderUpdate(1)
    \/ \E id \in 1..MaxOrders : CancelOrder(1, id, "Order cancelled")
    \/ \E input \in DishStockInputs : UdsBegin(1, input)
    \/ UdsUpdate(1)
    \/ Return(1)

SpecDish == Init /\ [][NextDish]_vars

\* Placements and cancellations of all processes interleaved, on slot 2.
\* Every placement locks the same rows (dish 1, promo code, slot 2) in the
\* same order, so no deadlock arises among them.
BookOrderInputs ==
    { Guest(2, << Item(1, Null, 1) >>, Some("P3")) }

NextBook ==
    \E p \in Procs :
        \/ \E input \in BookOrderInputs : CoBegin(p, input)
        \/ CoStep(p)
        \/ \E id \in 1..MaxOrders :
               UosBegin(p, StatusInput(id, "cancelled", Null))
        \/ UosRefund(p)
        \/ UosSlotSelect(p)
        \/ UosSlotUpdate(p)
        \/ UosOrderUpdate(p)
        \/ \E id \in 1..MaxOrders : CancelOrder(p, id, "Order cancelled")
        \/ Return(p)

SpecBook == Init /\ [][NextBook]_vars

\* createTimeSlot calls of all processes interleaved, on the date of the
\* two stored slots and on a free one: the ranges of the stored slots, a
\* range across both, an empty and a reversed range, and the reversed range
\* with its end written without the leading zero.
SlotRanges ==
    { << TimeText(0, TRUE), TimeText(2, TRUE) >>,
      << TimeText(2, TRUE), TimeText(4, TRUE) >>,
      << TimeText(1, TRUE), TimeText(3, TRUE) >>,
      << TimeText(2, TRUE), TimeText(2, TRUE) >>,
      << TimeText(3, TRUE), TimeText(1, TRUE) >>,
      << TimeText(3, TRUE), TimeText(1, FALSE) >> }

SlotInputs ==
    {TimeSlotInput(date, r[1], r[2]) : date \in 0..1, r \in SlotRanges}

NextSlot ==
    \E p \in Procs :
        \/ \E input \in SlotInputs : CtsBegin(p, input)
        \/ CtsInsert(p)
        \/ Return(p)

SpecSlot == Init /\ [][NextSlot]_vars

\* createPromoCode calls of all processes interleaved: a stored and two new
\* codes, each discount field absent, 0 (percentage only) or positive, and
\* an ordered, an empty and a reversed validity range.
PromoCodeInputs ==
    {PromoCodeInput(code, pct, amt, range[1], range[2]) :
        code \in {"P1", "P5", "P6"},
        pct \in {Null, Some(0), Some(20)},
        amt \in {Null, Some(1000)},
        range \in {<< 1, 3 >>, << 2, 2 >>, << 3, 1 >>}}

NextPromo ==
    \E p \in Procs :
        \/ \E input \in PromoCodeInputs : CpcBegin(p, input)
        \/ CpcInsert(p)
        \/ Return(p)

SpecPromo == Init /\ [][NextPromo]_vars

\* Placements one after the other for every kind of caller: a guest, the
\* registered user, a caller that names both, one that names neither, and
\* a user id that is no row of users.
CallerOrderInputs ==
    {OrderInput(ci, u, 3, << Item(1, Null, 1) >>, Some("P3")) :
        ci \in BOOLEAN, u \in {Null, Some(1), Some(2)}}

NextCaller ==
    \/ \E input \in CallerOrderInputs : CoBegin(1, input)
    \/ CoStep(1)
    \/ Return(1)

SpecCaller == Init /\ [][NextCaller]_vars

\* Placements one after the other that name a promo code: an unknown code,
\* the inactive one, one whose minimum the order misses, one with a use
\* left and then none, and one without conditions, at every time of Nows.
CodeOrderInputs ==
    {Guest(3, << Item(3, Null, 1) >>, Some(code)) :
        code \in {"P0", "P1", "P2", "P4"}}
    \cup {Guest(3, << Item(1, Null, 1) >>, Some("P1"))}

NextCode ==
    \/ \E input \in CodeOrderInputs : CoBegin(1, input)
    \/ CoStep(1)
    \/ Return(1)

SpecCode == Init /\ [][NextCode]_vars

\* Placements one after the other whose items carry a unit_price below,
\* equal to and above the price of the catalog.
SentPrices == {1, 1200, 5000}

TamperOrderInputs ==
    {Guest(3, << PricedItem(1, Some(1), 1, u) >>, Some("P1")) :
        u \in SentPrices}
    \cup {Guest(3, << PricedItem(3, Null, 2, u) >>, Null) : u \in SentPrices}

NextTamper ==
    \/ \E input \in TamperOrderInputs : CoBegin(1, input)
    \/ CoStep(1)
    \/ Return(1)

SpecTamper == Init /\ [][NextTamper]_vars

\* Lifecycle requests one after the other, with and without internal notes,
\* for every status, the order's current one included.
NotesStatusInputs ==
    {StatusInput(id, s, notes) :
        id \in 1..MaxOrders, s \in OrderStatuses,
        notes \in {Null, Some("note")}}

NextNotes ==
    \/ \E input \in LifeOrderInputs : CoBegin(1, input)
    \/ CoStep(1)
    \/ \E input \in NotesStatusInputs : UosBegin(1, input)
    \/ UosStep(1)
    \/ Return(1)

SpecNotes == Init /\ [][NextNotes]_vars

\* One placement per process, all interleaved, listing the two stock-tracked
\* dishes in opposite order, under fair scheduling: a statement that can
\* run does run (the database answers every statement, hands a released
\* row lock to a waiting UPDATE, and its deadlock detector fires).
LiveOrderInputs ==
    { Guest(1, << Item(1, Null, 1), Item(2, Null, 1) >>, Some("P3")),
      Guest(3, << Item(2, Null, 1), Item(1, Null, 1) >>, Null) }

NextLive ==
    \E p \in Procs :
        \/ \E input \in LiveOrderInputs : CoBegin(p, input)
        \/ CoStep(p)
        \/ CoDeadlock(p)

SpecLive ==
    /\ Init
    /\ [][NextLive]_vars
    /\ \A p \in Procs : WF_vars(CoStep(p)) /\ WF_vars(CoDeadlock(p))

\* createDishVariant calls one after the other: default and non-default
\* variants for a dish that has a default, one that has none, and a dish
\* that does not exist.
VariantInputs ==
    {VariantInput(d, m, is_default) :
        d \in {1, 2, 9}, m \in {0, 150}, is_default \in BOOLEAN}

NextVariant ==
    \/ \E input \in VariantInputs : CreateDishVariant(1, input)
    \/ Return(1)

SpecVariant == Init /\ [][NextVariant]_vars

\* Stock updates one after the other, with and without an explicit status,
\* on an available dish with a stock, on the unavailable dish and on a dish
\* that does not exist.
DishStatuses == {"available", "unavailable", "out_of_stock"}

StatusStockInputs ==
    {DishStockInput(id, stock_quantity, status) :
        id \in {1, 4, 5},
        stock_quantity \in {Null, Some(0), Some(2)},
        status \in {Null} \cup {Some(s) : s \in DishStatuses}}

NextStatus ==
    \/ \E input \in StatusStockInputs : UdsBegin(1, input)
    \/ UdsUpdate(1)
    \/ Return(1)

SpecStatus == Init /\ [][NextStatus]_vars

\* Stock updates without an explicit status, one after the other, on an
\* available dish with a stock and on the unavailable dish.
ShelfStockInputs ==
    {DishStockInput(id, stock_quantity, Null) :
        id \in {1, 4}, stock_quantity \in {Null, Some(0), Some(1), Some(2)}}

NextShelf ==
    \/ \E input \in ShelfStockInputs : UdsBegin(1, input)
    \/ UdsUpdate(1)
    \/ Return(1)

SpecShelf == Init /\ [][NextShelf]_vars

\* Placements of all processes interleaved.
PlaceOrderInputs ==
    { Guest(1, << Item(3, Null, 1) >>, Null),
      Guest(3, << Item(1, Null, 1) >>, Some("P1")),
      Guest(3, << Item(2, Null, 1) >>, Some("P1")),
      Guest(1, << Item(1, Null, 1), Item(2, Null, 1) >>, Null),
      Guest(3, << Item(2, Null, 1), Item(1, Null, 1) >>, Null) }

NextPlace ==
    \E p \in Procs :
        \/ \E input \in PlaceOrderInputs : CoBegin(p, input)
        \/ CoStep(p)
        \/ CoDeadlock(p)
        \/ Return(p)

SpecPlace == Init /\ [][NextPlace]_vars

\* Lifecycle requests on orders that have several payments.  The state
\* they start in is the one two guest placements (pickup at the start of
\* slot 1, pickup inside slot 2, one dish without stock tracking each) and
\* three createPayment calls leave: order 1 with an on-site (pending) and an
\* online (authorized) payment, order 2 with an on-site (pending) payment.
PayOrder(customer, pickup) ==
    [order_number |-> customer, qr_code |-> customer,
     customer_id |-> Some(customer), user_id |-> Null, status |-> "new",
     pickup_slot |-> pickup, total_amount |-> 324, tax_amount |-> 24,
     internal_notes |-> Null, is_guest_order |-> TRUE]

PayItem(order) ==
    [order_id |-> order, line |-> 1, dish_id |-> 3, variant_id |-> Null,
     quantity |-> 1, unit_price |-> 300, total_price |-> 300]

PayPayment(order, method) ==
    [order_id |-> order, method |-> method,
     status |-> IF method = "online" THEN "authorized" ELSE "pending",
     processed_at |-> IF method = "online" THEN Some("now") ELSE Null,
     transaction_id |-> Null]

InitPay ==
    /\ dishesTable = InitDishes
    /\ dishVariantsTable = InitVariants
    /\ timeSlotsTable = [InitTimeSlots EXCEPT ![1].current_bookings = 1,
                                              ![2].current_bookings = 1]
    /\ promoCodesTable = InitPromoCodes
    /\ customersTable = {1, 2}
    /\ ordersTable = << PayOrder(1, 0), PayOrder(2, 3) >>
    /\ orderItemsTable = {PayItem(1), PayItem(2)}
    /\ orderPromoCodesTable = {}
    /\ paymentsTable = << PayPayment(1, "on_site"), PayPayment(1, "online"),
                          PayPayment(2, "on_site") >>
    /\ usersTable = {1}
    /\ bookedSlot = << 1, 2 >>
    /\ proc = [p \in Procs |-> Blank]

PayStatusInputs ==
    {StatusInput(id, s, Null) : id \in {1, 2}, s \in OrderStatuses}

NextPay ==
    \/ \E input \in PayStatusInputs : UosBegin(1, input)
    \/ \E id \in {1, 2, 3} : ProcessPayment(1, id)
    \/ UosStep(1)
    \/ Return(1)

SpecPay == InitPay /\ [][NextPay]_vars

\* Cancellations of all processes interleaved.  The state they start in is
\* the one two guest placements with pickup at the start of slot 2, an online
\* payment of order 1 that processPayment has captured and an on-site
\* payment of order 2 leave.
InitCancel ==
    /\ dishesTable = InitDishes
    /\ dishVariantsTable = InitVariants
    /\ timeSlotsTable = [InitTimeSlots EXCEPT ![2].current_bookings = 2]
    /\ promoCodesTable = InitPromoCodes
    /\ customersTable = {1, 2}
    /\ ordersTable = << PayOrder(1, 2), PayOrder(2, 2) >>
    /\ orderItemsTable = {PayItem(1), PayItem(2)}
    /\ orderPromoCodesTable = {}
    /\ paymentsTable =
          << [PayPayment(1, "online") EXCEPT
                 !.status = "captured", !.transaction_id = Some("txn")],
             PayPayment(2, "on_site") >>
    /\ usersTable = {1}
    /\ bookedSlot = << 2, 2 >>
    /\ proc = [p \in Procs |-> Blank]

NextCancel ==
    \E p \in Procs :
        \/ \E id \in {1, 2} : UosBegin(p, StatusInput(id, "cancelled", Null))
        \/ UosRefund(p)
        \/ UosSlotSelect(p)
        \/ UosSlotUpdate(p)
        \/ UosOrderUpdate(p)
        \/ Return(p)

SpecCancel == InitCancel /\ [][NextCancel]_vars

\* Placements one after the other over the prices the catalog and the
\* promo codes can hold: a variant with a surcharge, a variant whose negative
\* modifier exceeds the dish price, a percentage code of 50 and one of 150,
\* a fixed amount below and above the subtotal.
PriceOrderInputs ==
    { Guest(3, << Item(1, Null, 1) >>, Some("P2")),
      Guest(3, << Item(1, Some(1), 1), Item(3, Null, 1) >>, Some("P3")),
      Guest(3, << Item(3, Null, 1) >>, Some("P3")),
      Guest(3, << Item(2, Some(2), 1) >>, Null),
      Guest(3, << Item(3, Null, 2) >>, Some("P1")) }

NextPrice ==
    \/ \E input \in PriceOrderInputs : CoBegin(1, input)
    \/ CoStep(1)
    \/ Return(1)

SpecPrice == Init /\ [][NextPrice]_vars

\* Placements of process 1 and validatePromoCode calls of process 2, on the
\* stored codes and an unknown one, with the subtotals of the placements as
\* order amounts.
AgreeOrderInputs ==
    PriceOrderInputs \cup {Guest(3, << Item(3, Null, 1) >>, Some("P4"))}

ValidationInputs ==
    ({"P1", "P2", "P3", "P4", "PX"} \X {300, 600, 1000})
        \cup {<< "P3", 1500 >>}

NextAgree ==
    \/ \E input \in AgreeOrderInputs : CoBegin(1, input)
    \/ CoStep(1)
    \/ Return(1)
    \/ \E v \in ValidationInputs : \E now \in Nows :
           ValidatePromoCode(2, v[1], v[2], now)
    \/ Return(2)

SpecAgree == Init /\ [][NextAgree]_vars

\* ================================================================ claims
\* The quantity of dish d on the orders o..n.
RECURSIVE TotalOrdered(_, _)
TotalOrdered(d, o) ==
    IF o > Len(ordersTable) THEN 0
    ELSE OrderedQuantity(o, d, 1) + TotalOrdered(d, o + 1)

\* C1: a createOrder call that does not end with an order leaves every
\* table as it was: no step of such a call, from its first statement to the
\* delivery of its error, changes a dish, a time slot, a promo code, or the
\* customers, orders, order items and promo-usage rows.  (Only the step
\* that commits the order changes a table.)
C1_FailedPlacementChangesNothing ==
    [][\A p \in Procs :
          (/\ proc'[p] # proc[p]
           /\ (proc[p].op = "createOrder" \/ proc'[p].op = "createOrder")
           /\ ~ (proc'[p].pc = "done" /\ proc'[p].res = "ok"))
          => UNCHANGED tables]_vars

\* A placement has failed on its time slot after it had inserted its guest
\* customer row and decremented a dish's stock inside the transaction; the
\* tables hold neither write.
C1_Witness ==
    \E p \in Procs :
        /\ proc[p].op = "createOrder"
        /\ proc[p].pc = "done"
        /\ proc[p].res = "SlotFullyBooked"
        /\ proc[p].wCustomer # Null
        /\ Val(proc[p].wCustomer) \notin customersTable
        /\ \E d \in DOMAIN proc[p].wDishes :
              proc[p].wDishes[d] # dishesTable[d]

\* C2: placements running at the same time never sell a stock-tracked
\* dish beyond the stock it had: the quantities of the committed orders add
\* up to at most the initial stock, and the stock is never negative.
C2_NoOversell ==
    \A d \in DOMAIN dishesTable :
        InitDishes[d].stock_quantity # Null =>
            /\ TotalOrdered(d, 1) <= Val(InitDishes[d].stock_quantity)
            /\ Val(dishesTable[d].stock_quantity) >= 0

\* C3: the placements committed into a slot never exceed the places it had
\* free.
C3_NoOverbooking ==
    \A s \in DOMAIN timeSlotsTable :
        Cardinality({o \in DOMAIN bookedSlot : bookedSlot[o] = s})
            <= InitTimeSlots[s].max_capacity
               - InitTimeSlots[s].current_bookings

\* C4: a promo code with max_uses is never used more often than max_uses:
\* neither used_count nor the number of orders that applied it exceeds it.
C4_PromoUsesBounded ==
    \A c \in DOMAIN promoCodesTable :
        promoCodesTable[c].max_uses # Null =>
            /\ promoCodesTable[c].used_count <= Val(promoCodesTable[c].max_uses)
            /\ Cardinality({r \in orderPromoCodesTable : r.promo_code_id = c})
                  <= Val(promoCodesTable[c].max_uses)

\* The status pairs the specification allows updateOrderStatus to make.
AllowedPairs ==
    { << "new", "preparing" >>, << "new", "cancelled" >>,
      << "preparing", "ready" >>, << "preparing", "cancelled" >>,
      << "ready", "picked_up" >>, << "ready", "cancelled" >> }

\* C5: updateOrderStatus changes an order's status only along new ->
\* preparing, new -> cancelled, preparing -> ready, preparing -> cancelled,
\* ready -> picked_up and ready -> cancelled; a request for any other pair
\* on an existing order, the order's own status included, ends with
\* InvalidTransition in the step that validates it, and no table changes.
C5_OnlyAllowedTransitions ==
    [][\A p \in Procs :
          /\ (/\ proc'[p] # proc[p]
              /\ (proc[p].op = "updateOrderStatus"
                    \/ proc'[p].op = "updateOrderStatus"))
                => \A o \in DOMAIN ordersTable :
                      ordersTable'[o].status # ordersTable[o].status
                        => << ordersTable[o].status, ordersTable'[o].status >>
                              \in AllowedPairs
          /\ (/\ proc[p].pc = "idle"
              /\ proc'[p].op = "updateOrderStatus"
              /\ proc'[p].input.id \in DOMAIN ordersTable
              /\ << ordersTable[proc'[p].input.id].status,
                    proc'[p].input.status >> \notin AllowedPairs)
                => /\ proc'[p].pc = "done"
                   /\ proc'[p].res = "InvalidTransition"
                   /\ UNCHANGED tables]_vars

\* A request for the status the order already has was rejected, on an order
\* that has a payment.
C5_Witness ==
    \E p \in Procs :
        /\ proc[p].op = "updateOrderStatus"
        /\ proc[p].pc = "done"
        /\ proc[p].res = "InvalidTransition"
        /\ proc[p].input.id \in DOMAIN ordersTable
        /\ ordersTable[proc[p].input.id].status = proc[p].input.status
        /\ \E k \in DOMAIN paymentsTable :
              paymentsTable[k].order_id = proc[p].input.id

TerminalStatuses == {"picked_up", "cancelled"}

\* C6: picked_up and cancelled are terminal: no step of any request
\* (updateOrderStatus or cancelOrder) changes the status of an order that
\* is picked_up or cancelled.
C6_TerminalStatuses ==
    [][\A o \in DOMAIN ordersTable :
          ordersTable[o].status \in TerminalStatuses
            => ordersTable'[o].status = ordersTable[o].status]_vars

\* A request to change a picked_up or cancelled order has been made and
\* was refused.
C6_Witness ==
    \E p \in Procs :
        /\ proc[p].op \in {"updateOrderStatus", "cancelOrder"}
        /\ proc[p].pc = "done"
        /\ proc[p].res \in {"InvalidTransition", "AlreadyCancelled",
                            "AlreadyPickedUp"}
        /\ proc[p].input.id \in DOMAIN ordersTable
        /\ ordersTable[proc[p].input.id].status \in TerminalStatuses
        /\ (proc[p].op = "updateOrderStatus"
              => proc[p].input.status
                    # ordersTable[proc[p].input.id].status)

\* A request that has ended with the order cancelled.
Cancelled(p) ==
    /\ proc[p].pc = "done"
    /\ proc[p].res = "ok"
    /\ \/ proc[p].op = "cancelOrder"
       \/ proc[p].op = "updateOrderStatus"
          /\ proc[p].input.status = "cancelled"

\* C7: the status change and its side effects are one atomic unit: an
\* updateOrderStatus request that fails after a side-effect write and
\* before the status write leaves the payments, the time slots and the
\* order as they were when it began.
C7_FailedUpdateLeavesNothing ==
    \A p \in Procs :
        (/\ proc[p].op = "updateOrderStatus"
         /\ proc[p].pc = "done"
         /\ proc[p].res = "InfrastructureError")
          => /\ paymentsTable = proc[p].paymentsBefore
             /\ timeSlotsTable = proc[p].slotsBefore
             /\ ordersTable[proc[p].input.id].status
                   = proc[p].existingOrder.status

\* C8: when a request has cancelled an order, every payment of the order
\* that was authorized or captured is refunded with processed_at set, and
\* every other payment is as it was.
C8_CancelRefundsPayments ==
    \A p \in Procs :
        Cancelled(p) =>
            \A k \in DOMAIN paymentsTable :
                IF /\ paymentsTable[k].order_id = proc[p].input.id
                   /\ proc[p].paymentsBefore[k].status
                         \in {"authorized", "captured"}
                THEN /\ paymentsTable[k].status = "refunded"
                     /\ paymentsTable[k].processed_at # Null
                ELSE paymentsTable[k] = proc[p].paymentsBefore[k]

\* The dish row a cancellation of quantity q leaves, from the row before.
StockRestored(dish, q) ==
    IF dish.stock_quantity = Null \/ q = 0 THEN dish
    ELSE [dish EXCEPT
            !.stock_quantity = Some(Val(dish.stock_quantity) + q),
            !.status = IF dish.status = "out_of_stock"
                          /\ Val(dish.stock_quantity) + q > 0
                       THEN "available" ELSE dish.status]

\* C9: when a request has cancelled an order, the stock of every
\* stock-tracked dish of the order is higher by the ordered quantity, an
\* out_of_stock dish whose stock became positive is available again, and
\* dishes without stock tracking are as they were.
C9_CancelRestoresStock ==
    \A p \in Procs :
        Cancelled(p) =>
            \A d \in DOMAIN dishesTable :
                dishesTable[d] =
                    StockRestored(proc[p].dishesBefore[d],
                                  OrderedQuantity(proc[p].input.id, d, 1))

\* C10: when a request has cancelled an order, current_bookings of the
\* slot createOrder booked the order into is lower by one (not below
\* zero), and no other slot has changed.
C10_CancelReleasesBookedSlot ==
    \A p \in Procs :
        Cancelled(p) =>
            \A s \in DOMAIN timeSlotsTable :
                timeSlotsTable[s] =
                    IF s = bookedSlot[proc[p].input.id]
                    THEN [proc[p].slotsBefore[s] EXCEPT
                            !.current_bookings = Max(0, @ - 1)]
                    ELSE proc[p].slotsBefore[s]

\* C11: cancelOrder on an order that is cancelled ends with the
\* already-cancelled error, on an order that is picked_up with the
\* already-picked-up error, and in both cases the call changes no table:
\* no dish stock, no slot booking count, no payment and no order field.
C11_CancelGuardsTerminal ==
    [][\A p \in Procs :
          (/\ proc[p].pc = "idle"
           /\ proc'[p].op = "cancelOrder"
           /\ proc'[p].input.id \in DOMAIN ordersTable
           /\ ordersTable[proc'[p].input.id].status \in TerminalStatuses)
            => /\ proc'[p].pc = "done"
               /\ proc'[p].res =
                     (IF ordersTable[proc'[p].input.id].status = "cancelled"
                      THEN "AlreadyCancelled" ELSE "AlreadyPickedUp")
               /\ UNCHANGED tables]_vars

\* A second cancelOrder on an order cancelOrder had cancelled, whose
\* payment it had refunded, has been refused.
C11_Witness ==
    \E p \in Procs :
        /\ proc[p].op = "cancelOrder"
        /\ proc[p].pc = "done"
        /\ proc[p].res = "AlreadyCancelled"
        /\ ordersTable[proc[p].input.id].internal_notes # Null
        /\ \E k \in DOMAIN paymentsTable :
              /\ paymentsTable[k].order_id = proc[p].input.id
              /\ paymentsTable[k].status = "refunded"

\* A request that has ended with the order ready.
MadeReady(p) ==
    /\ proc[p].op = "updateOrderStatus"
    /\ proc[p].pc = "done"
    /\ proc[p].res = "ok"
    /\ proc[p].input.status = "ready"

\* C12: when a request has made an order ready, every payment of the order
\* that was pending is captured with processed_at set, and every other
\* payment (of the order in another status, authorized in particular, and
\* of other orders) is as it was.
C12_ReadyCapturesPending ==
    \A p \in Procs :
        MadeReady(p) =>
            \A k \in DOMAIN paymentsTable :
                IF /\ paymentsTable[k].order_id = proc[p].input.id
                   /\ proc[p].paymentsBefore[k].status = "pending"
                THEN /\ paymentsTable[k].status = "captured"
                     /\ paymentsTable[k].processed_at # Null
                ELSE paymentsTable[k] = proc[p].paymentsBefore[k]

\* Order 1 has been made ready while it had a pending and an authorized
\* payment and order 2 had a pending one: the first is captured, the
\* other two are as they were.
C12_Witness ==
    \E p \in Procs :
        /\ MadeReady(p)
        /\ proc[p].input.id = 1
        /\ proc[p].paymentsBefore[1].status = "pending"
        /\ paymentsTable[1].status = "captured"
        /\ paymentsTable[2].status = "authorized"
        /\ paymentsTable[3].status = "pending"

\* A createOrder call that has ended with an order; the order is the last
\* row of orders.
Placed(p) ==
    /\ proc[p].op = "createOrder"
    /\ proc[p].pc = "done"
    /\ proc[p].res = "ok"

\* C13: after a successful createOrder, the stock of every stock-tracked
\* dish on the order is its stock before minus the sum of the quantities
\* of the order's items for the dish (several items for one dish
\* included), the dish is out_of_stock exactly when that stock is 0, and
\* dishes without stock tracking or not on the order are as they were.
C13_StockDecrement ==
    \A p \in Procs :
        Placed(p) =>
            \A d \in DOMAIN dishesTable :
                LET before == proc[p].dishesBefore[d]
                    q == OrderedQuantity(Len(ordersTable), d, 1)
                IN IF before.stock_quantity = Null \/ q = 0
                   THEN dishesTable[d] = before
                   ELSE /\ dishesTable[d].stock_quantity
                             = Some(Val(before.stock_quantity) - q)
                        /\ dishesTable[d].price = before.price
                        /\ (dishesTable[d].status = "out_of_stock"
                              <=> Val(before.stock_quantity) - q = 0)

\* An order with two items for dish 1 has taken its stock from 2 to 0.
C13_Witness ==
    \E p \in Procs :
        /\ Placed(p)
        /\ Len(proc[p].input.items) = 2
        /\ \A k \in 1..2 : proc[p].input.items[k].dish_id = 1
        /\ proc[p].dishesBefore[1].stock_quantity = Some(2)
        /\ dishesTable[1].stock_quantity = Some(0)
        /\ dishesTable[1].status = "out_of_stock"

\* C14: a successful createOrder raises current_bookings of exactly one
\* slot, the one it resolved, by exactly 1, that slot had room, and every
\* other slot is as it was; a createOrder that ended as fully booked found
\* a slot for its pickup time with current_bookings at max_capacity and
\* changed neither a slot nor a dish.
C14_SlotBooking ==
    \A p \in Procs :
        /\ Placed(p) =>
              LET b == proc[p].timeSlot.id
              IN /\ bookedSlot[Len(ordersTable)] = b
                 /\ proc[p].slotsBefore[b].current_bookings
                       < proc[p].slotsBefore[b].max_capacity
                 /\ timeSlotsTable =
                       [proc[p].slotsBefore EXCEPT
                          ![b].current_bookings = @ + 1]
        /\ (/\ proc[p].op = "createOrder"
            /\ proc[p].pc = "done"
            /\ proc[p].res = "SlotFullyBooked")
              => /\ timeSlotsTable = proc[p].slotsBefore
                 /\ dishesTable = proc[p].dishesBefore
                 /\ \E s \in MatchingSlots(p, proc[p].input.pickup_slot) :
                       timeSlotsTable[s].current_bookings
                          = timeSlotsTable[s].max_capacity

\* A placement into slot 1, which an earlier placement had filled, has
\* ended as fully booked.
C14_Witness ==
    \E p \in Procs :
        /\ proc[p].op = "createOrder"
        /\ proc[p].pc = "done"
        /\ proc[p].res = "SlotFullyBooked"
        /\ \E o \in DOMAIN bookedSlot : bookedSlot[o] = 1
        /\ timeSlotsTable[1].current_bookings = timeSlotsTable[1].max_capacity
        /\ proc[p].wDishes # << >>

\* The unit price of an order item from the catalog: the dish price plus
\* the price modifier of the variant, if any.
CatalogUnitPrice(r) ==
    dishesTable[r.dish_id].price
      + (IF r.variant_id = Null THEN 0
         ELSE dishVariantsTable[Val(r.variant_id)].price_modifier)

\* The subtotal of the lines k..n of order o, in cents.
RECURSIVE CatalogSubtotal(_, _)
CatalogSubtotal(o, k) ==
    LET rows == {r \in orderItemsTable : r.order_id = o /\ r.line = k}
    IN IF rows = {} THEN 0
       ELSE LET r == CHOOSE x \in rows : TRUE
            IN CatalogUnitPrice(r) * r.quantity + CatalogSubtotal(o, k + 1)

\* C15: the discount recorded for an order that was committed with a promo
\* code is at most the order's subtotal, for percentage codes and for
\* fixed-amount codes, whatever promo code row is stored.
C15_DiscountAtMostSubtotal ==
    \A r \in orderPromoCodesTable :
        r.discount_applied <= CatalogSubtotal(r.order_id, 1)

\* The promo code of order o, or Null.
PromoOf(o) ==
    LET rows == {r \in orderPromoCodesTable : r.order_id = o}
    IN IF rows = {} THEN Null
       ELSE Some(promoCodesTable[(CHOOSE r \in rows : TRUE).promo_code_id])

\* The discount of order o in 1/Unit cents: the percentage of the subtotal,
\* or the fixed amount, capped at the subtotal or not.
DiscountOf(o, capped) ==
    LET subtotal == CatalogSubtotal(o, 1) * Unit
    IN IF PromoOf(o) = Null THEN 0
       ELSE LET promoCode == Val(PromoOf(o))
            IN IF promoCode.discount_percentage # Null
               THEN (subtotal * Val(promoCode.discount_percentage)) \div 100
               ELSE IF capped
                    THEN Min(Val(promoCode.discount_amount) * Unit, subtotal)
                    ELSE Val(promoCode.discount_amount) * Unit

\* tax_amount and total_amount of every order are 8 % and 108 % of the
\* subtotal less the discount, as stored in cents.
AmountsFollow(capped) ==
    \A o \in DOMAIN ordersTable :
        LET discounted == CatalogSubtotal(o, 1) * Unit - DiscountOf(o, capped)
        IN /\ ordersTable[o].tax_amount
                 = RoundCents((discounted * TAX_RATE) \div 100)
           /\ ordersTable[o].total_amount
                 = RoundCents((discounted * (100 + TAX_RATE)) \div 100)

\* C16 as stated: for every committed order, subtotal is the sum over its
\* items of (dish price + variant modifier) x quantity, tax_amount is
\* (subtotal - discount) x 0.08 and total_amount (subtotal - discount) x
\* 1.08, the discount being 0 without a promo code, subtotal x
\* percentage / 100 for a percentage code and the fixed amount for a
\* fixed-amount code.
C16_AmountsAsStated == AmountsFollow(FALSE)

\* C16 amended: the same, the discount of a fixed-amount code being the
\* smaller of the fixed amount and the subtotal.
C16_Amounts == AmountsFollow(TRUE)

\* An order whose fixed-amount code exceeds its subtotal has been
\* committed next to an order with a variant surcharge and the same code
\* below its subtotal.
C16_Witness ==
    \E o, o2 \in DOMAIN ordersTable :
        /\ PromoOf(o) # Null
        /\ Val(PromoOf(o)).discount_amount # Null
        /\ Val(Val(PromoOf(o)).discount_amount) > CatalogSubtotal(o, 1)
        /\ ordersTable[o].total_amount = 0
        /\ PromoOf(o2) # Null
        /\ Val(PromoOf(o2)).discount_amount # Null
        /\ Val(Val(PromoOf(o2)).discount_amount) < CatalogSubtotal(o2, 1)
        /\ \E r \in orderItemsTable : r.order_id = o2 /\ r.variant_id # Null

\* C17: every committed order has total_amount >= 0 and tax_amount >= 0,
\* whatever the catalog and the promo codes hold.
C17_AmountsNonNegative ==
    \A o \in DOMAIN ordersTable :
        /\ ordersTable[o].total_amount >= 0
        /\ ordersTable[o].tax_amount >= 0

\* C18: after any sequence of createOrder, cancellation and updateDishStock
\* calls without an explicit status, every stock-tracked dish has
\* stock_quantity >= 0 and is out_of_stock exactly when its stock is 0.
C18_StockStatusInvariant ==
    \A d \in DOMAIN dishesTable :
        dishesTable[d].stock_quantity # Null =>
            /\ Val(dishesTable[d].stock_quantity) >= 0
            /\ (dishesTable[d].status = "out_of_stock"
                  <=> Val(dishesTable[d].stock_quantity) = 0)

\* updateDishStock has put to 0 the stock of a dish that a placement had
\* sold out and a cancellation had restocked.
C18_Witness ==
    \E p \in Procs :
        /\ proc[p].op = "updateDishStock"
        /\ proc[p].pc = "done"
        /\ proc[p].res = "ok"
        /\ proc[p].dishesBefore[1].stock_quantity = Some(2)
        /\ dishesTable[1].stock_quantity = Some(0)
        /\ dishesTable[1].status = "out_of_stock"
        /\ \E o \in DOMAIN ordersTable :
              /\ ordersTable[o].status = "cancelled"
              /\ OrderedQuantity(o, 1, 1) = 2

\* C19: in every reachable state, under any interleaving of createOrder and
\* cancellation requests, every time slot has
\* 0 <= current_bookings <= max_capacity.
C19_BookingsWithinCapacity ==
    \A s \in DOMAIN timeSlotsTable :
        /\ 0 <= timeSlotsTable[s].current_bookings
        /\ timeSlotsTable[s].current_bookings <= timeSlotsTable[s].max_capacity

\* A cancellation that read slot 2 with one booking writes its decrement
\* after a placement has committed a second booking: the slot is full and
\* a release is in flight.
C19_Witness ==
    \E p \in Procs :
        /\ proc[p].op = "updateOrderStatus"
        /\ proc[p].pc = "uos_slot_update"
        /\ proc[p].currentBookings = 0
        /\ timeSlotsTable[2].current_bookings = timeSlotsTable[2].max_capacity
        /\ Len(ordersTable) = MaxOrders

\* C20: after any sequence or interleaving of createTimeSlot calls, every
\* stored slot ends after it starts and no two stored slots of one date have
\* overlapping [start_time, end_time) intervals.
C20_SlotsWellFormedAndDisjoint ==
    /\ \A s \in DOMAIN timeSlotsTable :
          timeSlotsTable[s].end_time > timeSlotsTable[s].start_time
    /\ \A s, t \in DOMAIN timeSlotsTable :
          (s # t /\ timeSlotsTable[s].date = timeSlotsTable[t].date) =>
              ~ (/\ timeSlotsTable[s].start_time < timeSlotsTable[t].end_time
                 /\ timeSlotsTable[t].start_time < timeSlotsTable[s].end_time)

\* What the claim asks of a createPromoCode input: exactly one discount
\* field set and valid_from before valid_until.
WellFormedPromoInput(input) ==
    /\ (input.discount_percentage # Null) # (input.discount_amount # Null)
    /\ input.valid_from < input.valid_until

\* C21: every stored promo code has exactly one of discount_percentage and
\* discount_amount set, valid_from before valid_until and a code of its own;
\* a finished createPromoCode call was rejected if its input breaks one of
\* these, and accepted if its input has exactly one discount field set
\* (discount_percentage 0 included), an ordered validity range and a code
\* that was not stored.
C21_PromoCodesWellFormed ==
    /\ \A c \in DOMAIN promoCodesTable :
          /\ (promoCodesTable[c].discount_percentage # Null)
                # (promoCodesTable[c].discount_amount # Null)
          /\ promoCodesTable[c].valid_from < promoCodesTable[c].valid_until
          /\ \A e \in DOMAIN promoCodesTable :
                promoCodesTable[e].code = promoCodesTable[c].code => e = c
    /\ \A p \in Procs :
          (proc[p].op = "createPromoCode" /\ proc[p].pc = "done") =>
              /\ ~ WellFormedPromoInput(proc[p].input) => proc[p].res # "ok"
              /\ proc[p].res \in {"BothDiscounts", "NoDiscount",
                                  "InvalidDateRange"}
                    => ~ WellFormedPromoInput(proc[p].input)

\* C22: in every reachable state each promo code's used_count is its
\* initial value plus the number of committed orders that applied it (its
\* usage rows).
C22_UsedCountMatchesUsages ==
    \A c \in DOMAIN promoCodesTable :
        promoCodesTable[c].used_count =
            (IF c \in DOMAIN InitPromoCodes
             THEN InitPromoCodes[c].used_count ELSE 0)
            + Cardinality({r \in orderPromoCodesTable : r.promo_code_id = c})

\* C23: every committed order has exactly one of customer_id and user_id
\* set, with is_guest_order true exactly when it is customer_id; a finished
\* createOrder call that named neither customer_info nor user_id has failed.
C23_ExactlyOneOwner ==
    /\ \A o \in DOMAIN ordersTable :
          /\ (ordersTable[o].customer_id # Null)
                # (ordersTable[o].user_id # Null)
          /\ ordersTable[o].is_guest_order
                <=> ordersTable[o].customer_id # Null
    /\ \A p \in Procs :
          (/\ proc[p].op = "createOrder"
           /\ proc[p].pc = "done"
           /\ ~ proc[p].input.customer_info
           /\ proc[p].input.user_id = Null) => proc[p].res # "ok"

\* C24: the slot createOrder books for an order has the date of the pickup,
\* is available, and has start_time <= pickup time < end_time; a pickup
\* time equal to a slot's end_time does not resolve to that slot.
C24_BookedSlotContainsPickup ==
    \A o \in DOMAIN bookedSlot :
        LET slot == timeSlotsTable[bookedSlot[o]]
            ts == ordersTable[o].pickup_slot
        IN /\ slot.date = DateOf(ts)
           /\ slot.is_available
           /\ slot.start_time <= TimeOf(ts)
           /\ TimeOf(ts) < slot.end_time

PromoErrors ==
    {"PromoCodeInvalid", "PromoCodeNotActive", "PromoCodeNotValidNow",
     "PromoCodeUsageLimit", "PromoCodeMinimumNotMet"}

\* The conditions under which the claim has a promo code row rejected.
ShouldReject(promoCode, now, subtotal) ==
    \/ ~ promoCode.is_active
    \/ now < promoCode.valid_from
    \/ now >= promoCode.valid_until
    \/ /\ promoCode.max_uses # Null
       /\ promoCode.used_count >= Val(promoCode.max_uses)
    \/ /\ promoCode.minimum_order_amount # Null
       /\ subtotal < Val(promoCode.minimum_order_amount)

\* C25: a createOrder call naming a promo code is rejected exactly when the
\* code does not exist, is not active, the current time is outside
\* [valid_from, valid_until), its uses are exhausted or the subtotal is
\* below its minimum; in every other case the code is applied.
C25_PromoRejectedExactlyWhen ==
    \A p \in Procs :
        proc[p].op = "createOrder" =>
            /\ proc[p].res = "PromoCodeInvalid"
                  <=> /\ proc[p].pc = "done"
                      /\ proc[p].now = Null
                      /\ proc[p].promoCodeId = Null
                      /\ proc[p].input.promo_code # Null
                      /\ PromoIdsByCode(Val(proc[p].input.promo_code)) = {}
                      /\ proc[p].res \in PromoErrors
            /\ proc[p].now # Null =>
                  IF ShouldReject(proc[p].promoCode, Val(proc[p].now),
                                  proc[p].subtotal)
                  THEN /\ proc[p].pc = "done"
                       /\ proc[p].res \in PromoErrors \ {"PromoCodeInvalid"}
                       /\ proc[p].promoCodeId = Null
                  ELSE proc[p].promoCodeId # Null

\* C26: what createOrder persists does not depend on the unit_price the
\* caller sends: the unit_price and total_price of every order item, the
\* discount, tax_amount and total_amount of every order are functions of
\* the catalog, the promo code and the quantities alone, so two placements
\* that differ only in unit_price persist the same values.
C26_SentPriceIgnored ==
    \A o \in DOMAIN ordersTable :
        LET subtotal == CatalogSubtotal(o, 1) * Unit
            discount == DiscountOf(o, TRUE)
        IN /\ \A r \in orderItemsTable :
                 r.order_id = o =>
                     /\ r.unit_price = CatalogUnitPrice(r)
                     /\ r.total_price = CatalogUnitPrice(r) * r.quantity
           /\ \A u \in orderPromoCodesTable :
                 u.order_id = o => u.discount_applied = RoundCents(discount)
           /\ ordersTable[o].tax_amount
                 = RoundCents(((subtotal - discount) * TAX_RATE) \div 100)
           /\ ordersTable[o].total_amount
                 = RoundCents(((subtotal - discount) * (100 + TAX_RATE))
                                 \div 100)

\* Two orders are committed, one for the dish with its variant and a promo
\* code, one without either; the last one stored a unit_price that is none
\* of the prices callers send.
C26_Witness ==
    /\ Len(ordersTable) = 2
    /\ \E r \in orderItemsTable : r.variant_id # Null
    /\ orderPromoCodesTable # {}
    /\ \E p \in Procs :
          /\ Placed(p)
          /\ proc[p].input.items[1].unit_price
                # proc[p].validatedItems[1].unit_price
          /\ \A u \in SentPrices :
                u # proc[p].validatedItems[1].unit_price

\* The columns of an order that no status update may touch.
FrozenColumns(order) ==
    << order.order_number, order.qr_code, order.customer_id, order.user_id,
       order.pickup_slot, order.total_amount, order.tax_amount >>

\* C27: a step of updateOrderStatus changes of an order only its status and
\* internal_notes: order_number, qr_code, customer_id, user_id,
\* pickup_slot, total_amount and tax_amount stay, no order item is changed
\* or removed and no order row is deleted.
C27_StatusUpdateFrame ==
    [][\A p \in Procs :
          (proc'[p].op = "updateOrderStatus" /\ proc'[p] # proc[p]) =>
              /\ DOMAIN ordersTable' = DOMAIN ordersTable
              /\ \A o \in DOMAIN ordersTable :
                    FrozenColumns(ordersTable'[o]) = FrozenColumns(ordersTable[o])
              /\ orderItemsTable' = orderItemsTable]_vars

\* A status update has stored a new status and internal notes on an order
\* that has items.
C27_Witness ==
    \E p \in Procs :
        /\ proc[p].op = "updateOrderStatus"
        /\ proc[p].pc = "done"
        /\ proc[p].res = "ok"
        /\ ordersTable[proc[p].input.id].status = "picked_up"
        /\ ordersTable[proc[p].input.id].internal_notes = Some("note")
        /\ \E r \in orderItemsTable : r.order_id = proc[p].input.id

\* The finished updateOrderStatus request of p carried the status its order
\* already had, together with internal notes.
NotesOnlyRequest(p) ==
    /\ proc[p].op = "updateOrderStatus"
    /\ proc[p].pc = "done"
    /\ proc[p].input.id \in DOMAIN ordersTable
    /\ proc[p].input.internal_notes # Null
    /\ IF proc[p].existingOrder # NoRow
       THEN proc[p].existingOrder.status = proc[p].input.status
       ELSE /\ proc[p].res = "InvalidTransition"
            /\ ordersTable[proc[p].input.id].status = proc[p].input.status

\* C29: an updateOrderStatus request that carries the order's current
\* status and new internal_notes succeeds, stores the notes, and captures
\* or refunds no payment and releases no time slot.
C29_NotesWithoutStatusChange ==
    \A p \in Procs :
        NotesOnlyRequest(p) =>
            /\ proc[p].res = "ok"
            /\ ordersTable[proc[p].input.id].internal_notes
                  = proc[p].input.internal_notes
            /\ paymentsTable = proc[p].paymentsBefore
            /\ timeSlotsTable = proc[p].slotsBefore

\* C28: no placement blocks forever: every createOrder transaction that has
\* begun eventually completes, committed or aborted with an error, also
\* when two orders list the same stock-tracked dishes in opposite order.
C28_PlacementsComplete ==
    \A p \in Procs : InTx(p) ~> (proc[p].pc = "done")

\* Two placements waited for each other's dish rows; one was aborted by
\* the deadlock detector and the other one committed.
C28_Witness ==
    \E p, q \in Procs :
        /\ p # q
        /\ proc[p].pc = "done"
        /\ proc[p].res = "DeadlockDetected"
        /\ Placed(q)

\* The default variants of dish d.
Defaults(d) ==
    {v \in DOMAIN dishVariantsTable :
        dishVariantsTable[v].dish_id = d /\ dishVariantsTable[v].is_default}

\* C30: after any sequence of createDishVariant calls each dish has at most
\* one default variant; a variant created with is_default true is stored as
\* the dish's only default, and a variant for a dish that does not exist is
\* rejected.
C30_AtMostOneDefault ==
    /\ \A d \in DOMAIN dishesTable : Cardinality(Defaults(d)) <= 1
    /\ \A v \in DOMAIN dishVariantsTable :
          dishVariantsTable[v].dish_id \in DOMAIN dishesTable
    /\ \A p \in Procs :
          (proc[p].op = "createDishVariant" /\ proc[p].pc = "done") =>
              /\ proc[p].res = "DishNotFound"
                    <=> proc[p].input.dish_id \notin DOMAIN dishesTable
              /\ proc[p].res = "ok" =>
                    /\ dishVariantsTable[Len(dishVariantsTable)] = proc[p].input
                    /\ proc[p].input.is_default =>
                          Defaults(proc[p].input.dish_id)
                             = {Len(dishVariantsTable)}

\* A default variant was created for dish 1, whose earlier default is no
\* longer one.
C30_Witness ==
    \E p \in Procs :
        /\ proc[p].op = "createDishVariant"
        /\ proc[p].res = "ok"
        /\ proc[p].input.dish_id = 1
        /\ proc[p].input.is_default
        /\ ~ dishVariantsTable[1].is_default
        /\ Len(dishVariantsTable) = MaxVariants

\* A request of process p that is a whole processPayment call.
ProcessCall(p) ==
    /\ proc[p].pc = "idle"
    /\ proc'[p].pc = "done"
    /\ proc'[p].op = "processPayment"

\* C31: processPayment changes a payment only from pending or authorized to
\* captured, setting transaction_id and processed_at; on a payment in any
\* other status, or on an id that does not exist, it fails and leaves every
\* payment unchanged; no payment is processed with success a second time.
C31_ProcessOnlyOnce ==
    [][\A p \in Procs : ProcessCall(p) =>
        LET id == proc'[p].input.paymentId
        IN IF /\ id \in DOMAIN paymentsTable
              /\ paymentsTable[id].status \in {"pending", "authorized"}
           THEN /\ proc'[p].res = "ok"
                /\ paymentsTable[id].transaction_id # Some("txn")
                /\ paymentsTable' = [paymentsTable EXCEPT ![id] =
                       [@ EXCEPT !.status = "captured",
                                 !.transaction_id = Some("txn"),
                                 !.processed_at = Some("now")]]
           ELSE /\ proc'[p].res # "ok"
                /\ paymentsTable' = paymentsTable]_vars

\* A second processPayment on a payment already processed has failed.
C31_Witness ==
    \E p \in Procs :
        /\ proc[p].pc = "done"
        /\ proc[p].op = "processPayment"
        /\ proc[p].res = "CannotProcessPayment"
        /\ paymentsTable[proc[p].input.paymentId].transaction_id = Some("txn")

\* A request of process p that is a whole createPayment call.
PaymentCall(p) ==
    /\ proc[p].pc = "idle"
    /\ proc'[p].pc = "done"
    /\ proc'[p].op = "createPayment"

\* C32: createPayment stores one payment, pending with processed_at null when
\* the method is on_site, authorized with processed_at set when the method is
\* online; for an order id that does not exist it fails and stores none.
C32_PaymentStartsByMethod ==
    [][\A p \in Procs : PaymentCall(p) =>
        LET input == proc'[p].input
        IN IF input.order_id \in DOMAIN ordersTable
           THEN /\ proc'[p].res = "ok"
                /\ Len(paymentsTable') = Len(paymentsTable) + 1
                /\ SubSeq(paymentsTable', 1, Len(paymentsTable))
                       = paymentsTable
                /\ LET payment == paymentsTable'[Len(paymentsTable')]
                   IN /\ payment.order_id = input.order_id
                      /\ payment.method = input.method
                      /\ input.method = "on_site" =>
                            /\ payment.status = "pending"
                            /\ payment.processed_at = Null
                      /\ input.method = "online" =>
                            /\ payment.status = "authorized"
                            /\ payment.processed_at # Null
           ELSE /\ proc'[p].res # "ok"
                /\ paymentsTable' = paymentsTable]_vars

\* An online payment has been stored as authorized.
C32_Witness ==
    \E p \in Procs :
        /\ proc[p].pc = "done"
        /\ proc[p].op = "createPayment"
        /\ proc[p].res = "ok"
        /\ proc[p].input.method = "online"
        /\ paymentsTable[Len(paymentsTable)].status = "authorized"

\* The status the claim expects updateDishStock to store for a dish.
ExpectedStatus(dish, input) ==
    IF input.status # Null THEN Val(input.status)
    ELSE IF input.stock_quantity = Some(0) THEN "out_of_stock"
    ELSE IF input.stock_quantity # Some(0) /\ dish.status = "out_of_stock"
    THEN "available"
    ELSE dish.status

\* C33: updateDishStock with an explicit status stores that status; without
\* one it stores out_of_stock at stock 0, available at any other stock for a
\* dish that was out_of_stock, and the status the dish had otherwise; for a
\* dish id that does not exist it fails and changes nothing.
C33_StatusStored ==
    \A p \in Procs :
        (proc[p].pc = "done" /\ proc[p].op = "updateDishStock") =>
            LET before == proc[p].dishesBefore
                input == proc[p].input
            IN IF input.id \notin DOMAIN before
               THEN proc[p].res # "ok" /\ dishesTable = before
               ELSE /\ proc[p].res = "ok"
                    /\ dishesTable = [before EXCEPT ![input.id] =
                          [@ EXCEPT !.stock_quantity = input.stock_quantity,
                                    !.status =
                                       ExpectedStatus(before[input.id], input)]]

\* An explicit status available has been stored together with stock 0.
C33_Witness ==
    \E p \in Procs :
        /\ proc[p].pc = "done"
        /\ proc[p].op = "updateDishStock"
        /\ proc[p].input.status = Some("available")
        /\ proc[p].input.stock_quantity = Some(0)
        /\ proc[p].input.id \in DOMAIN dishesTable
        /\ proc[p].dishesBefore[proc[p].input.id].status = "unavailable"
        /\ dishesTable[proc[p].input.id].status = "available"

\* Process p has run a cancellation of order id through updateOrderStatus
\* to its end.
CancelDone(p, id) ==
    /\ proc[p].pc = "done"
    /\ proc[p].op = "updateOrderStatus"
    /\ proc[p].input.status = "cancelled"
    /\ proc[p].input.id = id

\* C34: of two requests to cancel the same order that run together only one
\* succeeds (requests that have both run to their end without either
\* returning in between); the slot of the order loses at most one booking
\* and a refunded payment is not refunded again.
C34_CancelledOnce ==
    /\ [](\A p, q \in Procs : \A id \in DOMAIN ordersTable :
            (p # q /\ CancelDone(p, id) /\ CancelDone(q, id)) =>
                /\ Cardinality({r \in {p, q} : proc[r].res = "ok"}) <= 1
                /\ \A r \in {p, q} : \A s \in DOMAIN timeSlotsTable :
                      timeSlotsTable[s].current_bookings >=
                          proc[r].slotsBefore[s].current_bookings - 1)
    /\ [][\A k \in DOMAIN paymentsTable :
            paymentsTable[k].status = "refunded" =>
                paymentsTable'[k] = paymentsTable[k]]_vars

\* C35: validatePromoCode and createOrder agree: on the same promo code row,
\* at the same time and for an order amount equal to the subtotal,
\* validatePromoCode reports valid exactly when createOrder accepts the code,
\* and reports the discount createOrder applies.
C35_ValidationAgrees ==
    \A p, q \in Procs :
        ( /\ proc[p].op = "createOrder"
          /\ proc[p].now # Null
          /\ proc[q].op = "validatePromoCode"
          /\ proc[q].now = proc[p].now
          /\ proc[q].promoCode = proc[p].promoCode
          /\ proc[q].input.orderAmount = proc[p].subtotal ) =>
            /\ proc[q].res = "ok" <=> proc[p].promoCodeId # Null
            /\ proc[q].res = "ok" =>
                  proc[q].discountAmount = proc[p].discountAmount

\* A request of process p that is a whole validatePromoCode call.
ValidationCall(p) ==
    /\ proc[p].pc = "idle"
    /\ proc'[p].pc = "done"
    /\ proc'[p].op = "validatePromoCode"

\* C36: validatePromoCode is read-only: whatever it returns, used_count and
\* every other field of every promo code row stay as they were, and so does
\* every other table.
C36_ValidationReadOnly ==
    [][\A p \in Procs : ValidationCall(p) =>
          /\ promoCodesTable' = promoCodesTable
          /\ tables' = tables]_vars

\* A code with max_uses has been validated as valid and has lost no use.
C36_Witness ==
    \E p \in Procs :
        /\ proc[p].pc = "done"
        /\ proc[p].op = "validatePromoCode"
        /\ proc[p].res = "ok"
        /\ proc[p].promoCode.max_uses # Null
        /\ \E c \in DOMAIN promoCodesTable :
              /\ promoCodesTable[c].code = proc[p].input.code
              /\ promoCodesTable[c].used_count = 0

\* C37: refunded is a terminal payment status and captured payments change
\* only to refunded: no step of updateOrderStatus, cancelOrder or
\* processPayment takes a refunded payment to another status or a captured
\* one to a status other than refunded.
C37_RefundedIsTerminal ==
    [][\A k \in DOMAIN paymentsTable :
          /\ paymentsTable[k].status = "refunded" =>
                paymentsTable'[k].status = "refunded"
          /\ paymentsTable[k].status = "captured" =>
                paymentsTable'[k].status \in {"captured", "refunded"}]_vars

\* processPayment has been refused on a refunded payment, which is still
\* refunded.
C37_Witness ==
    \E p \in Procs :
        /\ proc[p].pc = "done"
        /\ proc[p].op = "processPayment"
        /\ proc[p].res = "CannotProcessPayment"
        /\ paymentsTable[proc[p].input.paymentId].status = "refunded"

\* C38: once an order is cancelled, no payment of that order has status
\* authorized or captured, whatever createPayment and processPayment calls
\* follow the cancellation.
C38_NoMoneyAfterCancel ==
    \A k \in DOMAIN paymentsTable :
        ordersTable[paymentsTable[k].order_id].status = "cancelled" =>
            paymentsTable[k].status \notin {"authorized", "captured"}

\* C39: a dish whose status is unavailable never becomes available through
\* updateDishStock calls that carry no explicit status, whatever stock values
\* they set one after the other (0 and later a positive value included).
C39_UnavailableNeverAvailable ==
    \A d \in DOMAIN dishesTable :
        InitDishes[d].status = "unavailable" =>
            dishesTable[d].status # "available"

====
